---- MODULE Spec2Model ----
(***************************************************************************)
(* Session / position-tracking subsystem of alexa-music-server.            *)
(*                                                                         *)
(* Spec        : one SessionDurableObject (deploy-workers) driven through  *)
(*               its fetch routes, its alarm and the wall clock.           *)
(* SpecHandlers: the Workers intent / AudioPlayer handlers acting on that  *)
(*               object, with a playing device as environment.             *)
(* SpecKV      : PlaylistManagerKVAdapter, whose operations are a KV read  *)
(*               followed by a KV write, run by concurrent requests.       *)
(* SpecExpress : the Express PlaylistManager (in-memory session map).      *)
(*                                                                         *)
(* Times and offsets are milliseconds.  The clock advances in steps of     *)
(* TickMs; an alarm fires at the first clock value >= its scheduled time.  *)
(***************************************************************************)
EXTENDS Integers, Sequences, FiniteSets, TLC

\* ------------------------------------------------------------- bounds
MaxTicks  == 4      \* the clock runs from 0 to MaxTicks * TickMs
MaxTracks == 2      \* longest trackIds list passed to createSession
MaxRetry  == 2      \* cap on retryCount increments explored
MaxKVTicks == 1     \* clock steps explored with requests interleaved on KV
MaxKVOps  == 3      \* adapter operations explored per KV session

\* ---------------------------------------------------------- constants
AlarmIntervalMs == 30000
RetryLimit      == 2                 \* retries PlaybackFailedHandler allows
TickMs          == AlarmIntervalMs \div 3
MaxTime         == MaxTicks * TickMs
NoValue         == -1                \* JavaScript null / undefined
NullId          == "null"
DeviceId        == "device"

PlaybackStates == {"IDLE", "PLAYING", "PAUSED", "STOPPED"}
OffsetArgs     == {0, 4 * TickMs}
TrackLists     == {[i \in 1..n |-> i] : n \in 0..MaxTracks}
IndexArgs      == 0..MaxTracks
SessionIdArgs  == {NullId, DeviceId}
SecondsArgs    == {"15", "60", "-60"}     \* values of the seconds slot
MaxOffsetMs    == MaxTime + 6 * TickMs   \* cap on the offsets the seek intents reach
Requests       == {1, 2}             \* concurrent Worker requests

Max(a, b) == IF a >= b THEN a ELSE b
Abs(a)    == IF a >= 0 THEN a ELSE 0 - a

\* trackIds[index] with JavaScript's out-of-range result (undefined)
TrackAt(trackIds, index) ==
    IF index >= 0 /\ index < Len(trackIds) THEN trackIds[index + 1] ELSE NoValue

VARIABLES
    session,    \* SessionDurableObject.session (in memory)
    stored,     \* state.storage 'session': <<>> or <<record>>
    alarms,     \* pending alarm times of the object
    now,        \* Date.now()
    lastOp      \* name of the operation that ran last

doVars == <<session, stored, alarms, now, lastOp>>

VARIABLES
    dev,        \* device: "idle", "starting" (Play directive received, its
                \* PlaybackStarted not yet handled), "playing" or "dead"
    devPos,     \* position the device has actually reached in its stream
    devStopPos, \* position at which playback was cut off abnormally
    resumePos   \* offset of the last Play directive issued by ResumeIntent

devVars == <<dev, devPos, devStopPos, resumePos>>

VARIABLES
    reissued    \* Play directives PlaybackFailedHandler has issued in a row for
                \* the track that keeps failing

failVars == <<reissued>>

VARIABLES
    kv,         \* SESSIONS namespace, key session:<id>: <<>> or <<record>>
    kvLocal,    \* per request: the session object it read from KV
    kvPc,       \* per request: "idle" or the operation between read and write
    kvArg,      \* per request: offset argument of the running operation
    kvIncrements, \* incrementRetryCount calls completed since createSession
    kvLastOp,   \* last completed adapter operation
    kvOps       \* adapter operations started since createSession

kvVars == <<kv, kvLocal, kvPc, kvArg, kvIncrements, kvLastOp, kvOps>>

VARIABLES
    xsessions,  \* PlaylistManager.sessions: <<>> or <<record>> for the session
    xLastOp     \* last PlaylistManager operation and its result

xVars == <<xsessions, xLastOp>>

VARIABLES
    vreq,       \* the POST /alexa request being verified: deployment, headers,
                \* body bytes, configuration
    vpc,        \* position of its verification
    verror,     \* message of the error verification ended with, or "none"
    certCache,  \* certificate cache: the certificate URLs it holds a PEM for
    reqBody,    \* parsed body: <<>> until JSON.parse / express.json() has run
    certReads,  \* cache reads and fetches issued for this request's URL
    sigChecked  \* "none", or the outcome of the signature verification

verVars == <<vreq, vpc, verror, certCache, reqBody, certReads, sigChecked>>

VARIABLES
    tok,        \* <<>>, or <<the stream token at hand and how it came about>>
    tokResult,  \* <<>>, or <<the verifyStreamToken call just made and its result>>
    streamed    \* <<>>, or <<the GET /stream/ request just made and its status>>

tokVars == <<tok, tokResult, streamed>>

VARIABLES
    rlOptions,      \* <<>>, or <<the options createRateLimiter was given>>
    rateLimitCache, \* the module's Map: key -> <<>> or <<[count, timestamp]>>
    rlCalls,        \* history, per key: <<>> or <<[start, calls]>>, the time of
                    \* the first call of the key's latest window and the
                    \* number of calls made in that window (calls that ran
                    \* into an internal error are left out)
    rlLast          \* <<>>, or <<the rateLimitCheck call just made and its result>>

rlVars == <<rlOptions, rateLimitCache, rlCalls, rlLast>>

VARIABLES
    directed        \* the track of the latest Play directive a handler sent
                    \* (REPLACE_ALL or ENQUEUE), NoValue before the first

navVars == <<directed>>

VARIABLES
    saveTimeout,    \* SessionStorage.saveTimeout: NoValue, or the time at which
                    \* the timer it refers to is due
    timers,         \* due times of the pending setTimeout timers
    saves,          \* the save() runs, per slot: position ("idle" when the
                    \* slot is free), the JSON text it writes, where its open
                    \* descriptor points
    tmpFile,        \* content of `${filePath}.tmp`, NoFile while it is absent
    sessionFile,    \* content of filePath, NoFile while it is absent
    lastChange,     \* time of the latest scheduleSave call, NoValue before
    stLastOp,       \* last step of the storage
    stOps           \* PlaylistManager and saveNow calls made so far

stVars == <<saveTimeout, timers, saves, tmpFile, sessionFile, lastChange,
            stLastOp, stOps>>

vars == <<session, stored, alarms, now, lastOp, dev, devPos, devStopPos,
          resumePos, reissued, kv, kvLocal, kvPc, kvArg, kvIncrements, kvLastOp, kvOps,
          xsessions, xLastOp, vreq, vpc, verror, certCache, reqBody, certReads,
          sigChecked, tok, tokResult, streamed, rlOptions, rateLimitCache,
          rlCalls, rlLast, directed, saveTimeout, timers, saves, tmpFile,
          sessionFile, lastChange, stLastOp, stOps>>

\* ================================================= SessionDurableObject
\* The object is the record [session, stored, alarms]: its in-memory session,
\* the 'session' entry of its storage (<<>> or <<record>>) and its pending
\* alarm times.  Every method below is the object after the call at time t.
\* Storage operations close the object's input gate, so a method body runs
\* without interleaving.

\* constructor: the record used when storage holds no session.  createdAt and
\* lastPlaybackTimestamp are left out: they are written next to updatedAt from
\* the same clock and no code of the object reads them.
DefaultSession(t) ==
    [sessionId |-> NullId, trackIds |-> <<>>, currentIndex |-> 0,
     updatedAt |-> t,
     offsetInMilliseconds |-> 0, playbackState |-> "IDLE",
     currentToken |-> NoValue,
     retryCount |-> 0, lastError |-> "null",
     playbackStartedAt |-> NoValue, playbackStartOffset |-> 0]

\* a variant that keeps earlier alarms next to the new one
SetAlarmKeepingOld(pending, t) == pending \cup {t}

\* state.storage.setAlarm(t): an object has one alarm slot, a new alarm
\* replaces the pending one
SetAlarm(pending, t) == {t}

\* state.storage.deleteAlarm()
DeleteAlarm(pending) == {}

\* state.storage.put('session', this.session)
Put(D, s) == [D EXCEPT !.session = s, !.stored = <<s>>]

\* estimatePlaybackPosition()
estimatePlaybackPosition(s, t) ==
    IF s.playbackStartedAt = NoValue
    THEN s.offsetInMilliseconds
    ELSE Max(0, s.playbackStartOffset + (t - s.playbackStartedAt))

\* a variant of createSession that carries retryCount over from the session
\* it replaces
createSessionKeepingRetryCount(D, sessionId, trackIds, currentIndex, t) ==
    IF sessionId = NullId \/ Len(trackIds) = 0
    THEN D
    ELSE Put(D, [sessionId |-> sessionId, trackIds |-> trackIds,
                 currentIndex |-> currentIndex,
                 updatedAt |-> t,
                 offsetInMilliseconds |-> 0, playbackState |-> "IDLE",
                 currentToken |-> TrackAt(trackIds, currentIndex),
                 retryCount |-> D.session.retryCount, lastError |-> "null",
                 playbackStartedAt |-> NoValue, playbackStartOffset |-> 0])

\* POST /create
createSession(D, sessionId, trackIds, currentIndex, t) ==
    IF sessionId = NullId \/ Len(trackIds) = 0
    THEN D
    ELSE Put(D, [sessionId |-> sessionId, trackIds |-> trackIds,
                 currentIndex |-> currentIndex,
                 updatedAt |-> t,
                 offsetInMilliseconds |-> 0, playbackState |-> "IDLE",
                 currentToken |-> TrackAt(trackIds, currentIndex),
                 retryCount |-> 0, lastError |-> "null",
                 playbackStartedAt |-> NoValue, playbackStartOffset |-> 0])

\* POST /update-position
updatePlaybackPosition(D, offsetInMilliseconds, playbackState, t) ==
    LET P == Put(D, [D.session EXCEPT
                        !.offsetInMilliseconds = offsetInMilliseconds,
                        !.playbackState = playbackState,
                        !.updatedAt = t])
    IN  IF playbackState # "PLAYING"
        THEN [P EXCEPT !.alarms = DeleteAlarm(@)]
        ELSE P

\* POST /record-start
recordPlaybackStart(D, offsetInMilliseconds, t) ==
    LET P == Put(D, [D.session EXCEPT
                        !.playbackStartedAt = t,
                        !.playbackStartOffset = offsetInMilliseconds,
                        !.playbackState = "PLAYING",
                        !.updatedAt = t])
    IN  [P EXCEPT !.alarms = SetAlarm(@, t + AlarmIntervalMs)]

\* POST /set-state
setPlaybackState(D, playbackState, t) ==
    LET P == Put(D, [D.session EXCEPT !.playbackState = playbackState,
                                      !.updatedAt = t])
    IN  IF playbackState # "PLAYING"
        THEN [P EXCEPT !.alarms = DeleteAlarm(@)]
        ELSE P

\* POST /update-index
updateCurrentIndex(D, index, t) ==
    IF index < 0 \/ index >= Len(D.session.trackIds)
    THEN D
    ELSE Put(D, [D.session EXCEPT !.currentIndex = index,
                                  !.currentToken = D.session.trackIds[index + 1],
                                  !.updatedAt = t])

\* POST /reset-retry
resetRetryCount(D, t) ==
    Put(D, [D.session EXCEPT !.retryCount = 0, !.updatedAt = t])

\* POST /increment-retry
incrementRetryCount(D, t) ==
    Put(D, [D.session EXCEPT !.retryCount = @ + 1, !.updatedAt = t])

\* POST /record-error (lastError is "null" or "error")
recordError(D, t) ==
    Put(D, [D.session EXCEPT !.lastError = "error", !.updatedAt = t])

\* POST /next
nextTrack(D, t) ==
    LET nextIndex == D.session.currentIndex + 1 IN
    IF nextIndex >= Len(D.session.trackIds)
    THEN D
    ELSE Put(D, [D.session EXCEPT
                    !.currentIndex = nextIndex,
                    !.currentToken = TrackAt(D.session.trackIds, nextIndex),
                    !.offsetInMilliseconds = 0,
                    !.playbackStartOffset = 0,
                    !.updatedAt = t])

\* POST /next: the trackId of the response
nextTrackResult(D) ==
    LET nextIndex == D.session.currentIndex + 1 IN
    IF nextIndex >= Len(D.session.trackIds)
    THEN NoValue
    ELSE TrackAt(D.session.trackIds, nextIndex)

\* POST /previous
previousTrack(D, t) ==
    LET prevIndex == D.session.currentIndex - 1 IN
    IF prevIndex < 0
    THEN D
    ELSE Put(D, [D.session EXCEPT
                    !.currentIndex = prevIndex,
                    !.currentToken = TrackAt(D.session.trackIds, prevIndex),
                    !.offsetInMilliseconds = 0,
                    !.playbackStartOffset = 0,
                    !.updatedAt = t])

\* POST /previous: the trackId of the response
previousTrackResult(D) ==
    LET prevIndex == D.session.currentIndex - 1 IN
    IF prevIndex < 0
    THEN NoValue
    ELSE TrackAt(D.session.trackIds, prevIndex)

\* alarm(): the runtime has taken the due alarm `due` out of the slot
alarm(D, due, t) ==
    LET F == [D EXCEPT !.alarms = @ \ {due}] IN
    IF D.session.playbackState # "PLAYING"
    THEN F
    ELSE LET P == Put(F, [D.session EXCEPT
                             !.offsetInMilliseconds = estimatePlaybackPosition(D.session, t),
                             !.updatedAt = t])
         IN  [P EXCEPT !.alarms = SetAlarm(@, t + AlarmIntervalMs)]

\* the object as it stands, and the step that installs its successor
Obj == [session |-> session, stored |-> stored, alarms |-> alarms]

Becomes(D, op) ==
    /\ session' = D.session
    /\ stored' = D.stored
    /\ alarms' = D.alarms
    /\ lastOp' = op
    /\ UNCHANGED now

DOInit ==
    /\ now = 0
    /\ session = DefaultSession(0)
    /\ stored = <<>>
    /\ alarms = {}
    /\ lastOp = "init"

\* ------------------------------------------- Spec: the object's routes
CreateSession ==
    \E id \in SessionIdArgs, ids \in TrackLists, i \in IndexArgs :
        Becomes(createSession(Obj, id, ids, i, now), "createSession")

UpdatePlaybackPosition ==
    \E o \in OffsetArgs, st \in PlaybackStates :
        Becomes(updatePlaybackPosition(Obj, o, st, now), "updatePlaybackPosition")

RecordPlaybackStart ==
    \E o \in OffsetArgs :
        Becomes(recordPlaybackStart(Obj, o, now), "recordPlaybackStart")

SetPlaybackState ==
    \E st \in PlaybackStates :
        Becomes(setPlaybackState(Obj, st, now), "setPlaybackState")

UpdateCurrentIndex ==
    \E i \in IndexArgs :
        Becomes(updateCurrentIndex(Obj, i, now), "updateCurrentIndex")

NextTrack == Becomes(nextTrack(Obj, now), "nextTrack")

PreviousTrack == Becomes(previousTrack(Obj, now), "previousTrack")

\* GET /estimate-position
EstimatePosition == Becomes(Obj, "estimatePlaybackPosition")

\* a due alarm is delivered
Alarm ==
    \E due \in alarms :
        /\ due <= now
        /\ Becomes(alarm(Obj, due, now), "alarm")

\* the object is evicted or crashes; the constructor reloads it from storage
Restart ==
    Becomes([Obj EXCEPT !.session =
                 IF Len(stored) > 0 THEN stored[1] ELSE DefaultSession(now)],
            "restart")

\* the wall clock advances; a due alarm is delivered before time moves on
Tick ==
    /\ now + TickMs <= MaxTime
    /\ \A due \in alarms : due > now
    /\ now' = now + TickMs
    /\ lastOp' = "tick"
    /\ UNCHANGED <<session, stored, alarms>>

DevIdle ==
    /\ dev = "idle" /\ devPos = 0 /\ devStopPos = NoValue /\ resumePos = NoValue

KVIdle ==
    /\ kv = <<>>
    /\ kvLocal = [p \in Requests |-> <<>>]
    /\ kvPc = [p \in Requests |-> "idle"]
    /\ kvArg = [p \in Requests |-> [offset |-> 0, state |-> "IDLE"]]
    /\ kvIncrements = 0
    /\ kvLastOp = "init"
    /\ kvOps = 0

XIdle ==
    /\ xsessions = <<>>
    /\ xLastOp = "init"

VerIdle ==
    /\ vreq = <<>> /\ vpc = "idle" /\ verror = "none" /\ certCache = {}
    /\ reqBody = <<>> /\ certReads = {} /\ sigChecked = "none"

TokIdle == tok = <<>> /\ tokResult = <<>> /\ streamed = <<>>

RLKeys == {"ratelimit:1.1.1.1", "ratelimit:unknown"}

NoFile == <<>>

SaveRuns == {1, 2}               \* save() runs in flight at a time
NoSave   == [pc |-> "idle", text |-> <<>>, fd |-> "none"]

StIdle ==
    /\ saveTimeout = NoValue /\ timers = {} /\ saves = [r \in SaveRuns |-> NoSave]
    /\ tmpFile = NoFile /\ sessionFile = NoFile
    /\ lastChange = NoValue /\ stLastOp = "init" /\ stOps = 0

RLIdle ==
    /\ rlOptions = <<>> /\ rlLast = <<>>
    /\ rateLimitCache = [k \in RLKeys |-> <<>>]
    /\ rlCalls = [k \in RLKeys |-> <<>>]

Init ==
    DOInit /\ DevIdle /\ reissued = 0 /\ KVIdle /\ XIdle /\ VerIdle /\ TokIdle /\ RLIdle
    /\ directed = NoValue /\ StIdle

Next ==
    \/ CreateSession /\ UNCHANGED <<devVars, failVars, kvVars, xVars, verVars, tokVars, rlVars, navVars, stVars>>
    \/ UpdatePlaybackPosition /\ UNCHANGED <<devVars, failVars, kvVars, xVars, verVars, tokVars, rlVars, navVars, stVars>>
    \/ RecordPlaybackStart /\ UNCHANGED <<devVars, failVars, kvVars, xVars, verVars, tokVars, rlVars, navVars, stVars>>
    \/ SetPlaybackState /\ UNCHANGED <<devVars, failVars, kvVars, xVars, verVars, tokVars, rlVars, navVars, stVars>>
    \/ UpdateCurrentIndex /\ UNCHANGED <<devVars, failVars, kvVars, xVars, verVars, tokVars, rlVars, navVars, stVars>>
    \/ NextTrack /\ UNCHANGED <<devVars, failVars, kvVars, xVars, verVars, tokVars, rlVars, navVars, stVars>>
    \/ PreviousTrack /\ UNCHANGED <<devVars, failVars, kvVars, xVars, verVars, tokVars, rlVars, navVars, stVars>>
    \/ EstimatePosition /\ UNCHANGED <<devVars, failVars, kvVars, xVars, verVars, tokVars, rlVars, navVars, stVars>>
    \/ Alarm /\ UNCHANGED <<devVars, failVars, kvVars, xVars, verVars, tokVars, rlVars, navVars, stVars>>
    \/ Restart /\ UNCHANGED <<devVars, failVars, kvVars, xVars, verVars, tokVars, rlVars, navVars, stVars>>
    \/ Tick /\ UNCHANGED <<devVars, failVars, kvVars, xVars, verVars, tokVars, rlVars, navVars, stVars>>

Spec == Init /\ [][Next]_vars

\* ================== SpecAlarm: alarm() when a storage call of it fails
\* alarm() in which state.storage.put ("put") or state.storage.setAlarm
\* ("setAlarm") throws: the session in memory has been updated by then, the
\* catch block logs the error and alarm() returns normally, so the runtime
\* does not run it again
alarmFailing(D, due, t, failing) ==
    LET F == [D EXCEPT !.alarms = @ \ {due}]
        s == [D.session EXCEPT
                !.offsetInMilliseconds = estimatePlaybackPosition(D.session, t),
                !.updatedAt = t]
    IN  IF D.session.playbackState # "PLAYING"
        THEN F
        ELSE IF failing = "put"
        THEN [F EXCEPT !.session = s]
        ELSE Put(F, s)

\* a due alarm is delivered while the storage of the object fails
AlarmFails ==
    \E due \in alarms, failing \in {"put", "setAlarm"} :
        /\ due <= now
        /\ session.playbackState = "PLAYING"
        /\ Becomes(alarmFailing(Obj, due, now, failing), "alarmFailed")

AlarmFrame ==
    UNCHANGED <<devVars, failVars, kvVars, xVars, verVars, tokVars, rlVars, navVars, stVars>>

AlarmNext ==
    \/ CreateSession /\ AlarmFrame
    \/ RecordPlaybackStart /\ AlarmFrame
    \/ UpdatePlaybackPosition /\ AlarmFrame
    \/ Alarm /\ AlarmFrame
    \/ AlarmFails /\ AlarmFrame
    \/ Tick /\ AlarmFrame

SpecAlarm == Init /\ [][AlarmNext]_vars

\* ============================== SpecHandlers: Workers handlers on the object
\* A handler runs its playlistManager calls in program order; the Durable
\* adapter passes each call to the route of the same name.  The device plays
\* what the last AudioPlayer.Play directive told it to and reports
\* AudioPlayer events.  A request of the device can fail or be lost, so the
\* PlaybackStarted of a stream need not be handled before its
\* PlaybackStopped or PlaybackFinished.

\* getCurrentTrack(): trackIds[currentIndex], undefined when there is none
getCurrentTrack(D) == TrackAt(D.session.trackIds, D.session.currentIndex)

\* AudioPlayer.Play directive with REPLACE_ALL reaches the device
Play(offset) ==
    /\ dev' = "starting"
    /\ devPos' = offset

\* PlayMusicIntent: the search returned the tracks ids
PlayMusicIntentHandler ==
    /\ dev # "dead"
    /\ \E ids \in TrackLists \ {<<>>} :
          LET D1 == createSession(Obj, DeviceId, ids, 0, now)
              D2 == updatePlaybackPosition(D1, 0, "PLAYING", now)
              D3 == resetRetryCount(D2, now)
          IN  Becomes(D3, "PlayMusicIntent")
    /\ Play(0)
    /\ devStopPos' = NoValue
    /\ resumePos' = NoValue

\* AMAZON.ResumeIntent: replay the current track from the estimated position
ResumeIntentHandler ==
    /\ dev # "dead"
    /\ Becomes(Obj, "ResumeIntent")
    /\ IF getCurrentTrack(Obj) = NoValue
       THEN UNCHANGED devVars
       ELSE LET estimatedPosition == estimatePlaybackPosition(session, now) IN
            /\ estimatedPosition <= MaxOffsetMs
            /\ Play(estimatedPosition)
            /\ resumePos' = estimatedPosition
            /\ UNCHANGED devStopPos

\* parseInt(slots.seconds.value, 10) on the slot values explored
parseInt(value) ==
    CASE value = "15" -> 15
      [] value = "60" -> 60
      [] value = "-60" -> 0 - 60

\* FastForwardIntent / RewindIntent share the shape: estimate, move, replay
Seek(newPosition, op) ==
    /\ Abs(newPosition) <= MaxOffsetMs
    /\ Becomes(updatePlaybackPosition(Obj, newPosition, "PLAYING", now), op)
    /\ Play(newPosition)
    /\ devStopPos' = NoValue
    /\ resumePos' = NoValue

FastForwardIntentHandler ==
    /\ dev # "dead"
    /\ \E value \in SecondsArgs :
          LET secondsToSkip == parseInt(value) IN
          IF getCurrentTrack(Obj) = NoValue
          THEN Becomes(Obj, "FastForwardIntent") /\ UNCHANGED devVars
          ELSE Seek(estimatePlaybackPosition(session, now) + secondsToSkip * 1000,
                    "FastForwardIntent")

RewindIntentHandler ==
    /\ dev # "dead"
    /\ \E value \in SecondsArgs :
          LET secondsToRewind == parseInt(value) IN
          IF getCurrentTrack(Obj) = NoValue
          THEN Becomes(Obj, "RewindIntent") /\ UNCHANGED devVars
          ELSE Seek(Max(0, estimatePlaybackPosition(session, now)
                              - secondsToRewind * 1000),
                    "RewindIntent")

\* AudioPlayer.PlaybackStarted, sent by a device that plays
PlaybackStartedHandler ==
    /\ dev = "starting"
    /\ LET D1 == setPlaybackState(Obj, "PLAYING", now)
           D2 == resetRetryCount(D1, now)
           D3 == recordPlaybackStart(D2, devPos, now)
       IN  Becomes(D3, "PlaybackStarted")
    /\ resumePos' = NoValue
    /\ dev' = "playing"
    /\ UNCHANGED <<devPos, devStopPos>>

\* AudioPlayer.PlaybackStopped
PlaybackStoppedHandler ==
    /\ dev \in {"starting", "playing"}
    /\ Becomes(updatePlaybackPosition(Obj, devPos, "PAUSED", now), "PlaybackStopped")
    /\ dev' = "idle"
    /\ devStopPos' = NoValue
    /\ resumePos' = NoValue
    /\ UNCHANGED devPos

\* AudioPlayer.PlaybackFinished
PlaybackFinishedHandler ==
    /\ dev \in {"starting", "playing"}
    /\ Becomes(updatePlaybackPosition(Obj, 0, "IDLE", now), "PlaybackFinished")
    /\ dev' = "idle"
    /\ devStopPos' = NoValue
    /\ resumePos' = NoValue
    /\ UNCHANGED devPos

\* the device loses power or its network while playing: no event is sent
PowerLoss ==
    /\ dev = "playing"
    /\ dev' = "dead"
    /\ devStopPos' = devPos
    /\ lastOp' = "powerLoss"
    /\ UNCHANGED <<session, stored, alarms, now, devPos, resumePos>>

\* the device is reachable again
PowerBack ==
    /\ dev = "dead"
    /\ dev' = "idle"
    /\ lastOp' = "powerBack"
    /\ UNCHANGED <<session, stored, alarms, now, devPos, devStopPos, resumePos>>

\* a due alarm of the object is delivered
HandlersAlarm == Alarm /\ UNCHANGED devVars

\* the wall clock advances, and with it a playing stream
HandlersTick ==
    /\ Tick
    /\ devPos' = IF dev = "playing" THEN devPos + TickMs ELSE devPos
    /\ UNCHANGED <<dev, devStopPos, resumePos>>

HandlersNext ==
    \/ PlayMusicIntentHandler /\ UNCHANGED <<failVars, kvVars, xVars, verVars, tokVars, rlVars, navVars, stVars>>
    \/ ResumeIntentHandler /\ UNCHANGED <<failVars, kvVars, xVars, verVars, tokVars, rlVars, navVars, stVars>>
    \/ FastForwardIntentHandler /\ UNCHANGED <<failVars, kvVars, xVars, verVars, tokVars, rlVars, navVars, stVars>>
    \/ RewindIntentHandler /\ UNCHANGED <<failVars, kvVars, xVars, verVars, tokVars, rlVars, navVars, stVars>>
    \/ PlaybackStartedHandler /\ UNCHANGED <<failVars, kvVars, xVars, verVars, tokVars, rlVars, navVars, stVars>>
    \/ PlaybackStoppedHandler /\ UNCHANGED <<failVars, kvVars, xVars, verVars, tokVars, rlVars, navVars, stVars>>
    \/ PlaybackFinishedHandler /\ UNCHANGED <<failVars, kvVars, xVars, verVars, tokVars, rlVars, navVars, stVars>>
    \/ PowerLoss /\ UNCHANGED <<failVars, kvVars, xVars, verVars, tokVars, rlVars, navVars, stVars>>
    \/ PowerBack /\ UNCHANGED <<failVars, kvVars, xVars, verVars, tokVars, rlVars, navVars, stVars>>
    \/ HandlersAlarm /\ UNCHANGED <<failVars, kvVars, xVars, verVars, tokVars, rlVars, navVars, stVars>>
    \/ HandlersTick /\ UNCHANGED <<failVars, kvVars, xVars, verVars, tokVars, rlVars, navVars, stVars>>

SpecHandlers == Init /\ [][HandlersNext]_vars

\* ================================ SpecRetry: recovery from failed playback
\* getSession(): the adapter answers null for an object without sessionId
getSession(D) == IF D.session.sessionId = NullId THEN <<>> ELSE <<D.session>>

\* AudioPlayer.PlaybackFailed for the stream the device was told to play.
\* musicLibrary.findById finds the tracks of the session.
PlaybackFailedHandler ==
    /\ dev \in {"starting", "playing"}
    /\ reissued <= MaxRetry
    /\ LET D1 == recordError(Obj, now)
           found == getSession(D1)
           retryCount == IF Len(found) = 0 THEN 0 ELSE found[1].retryCount
       IN  IF retryCount < RetryLimit
           THEN /\ Becomes(incrementRetryCount(D1, now), "PlaybackFailed")
                /\ Play(0)
                /\ reissued' = reissued + 1
           ELSE LET D2 == resetRetryCount(D1, now) IN
                /\ Becomes(D2, "PlaybackFailed")
                /\ reissued' = 0
                /\ IF nextTrackResult(D2) # NoValue
                   THEN Play(0)
                   ELSE dev' = "idle" /\ UNCHANGED devPos
    /\ UNCHANGED <<devStopPos, resumePos>>

RetryNext ==
    \/ PlayMusicIntentHandler /\ reissued' = 0 /\ UNCHANGED <<kvVars, xVars, verVars, tokVars, rlVars, navVars, stVars>>
    \/ PlaybackStartedHandler /\ UNCHANGED <<failVars, kvVars, xVars, verVars, tokVars, rlVars, navVars, stVars>>
    \/ PlaybackFailedHandler /\ UNCHANGED <<kvVars, xVars, verVars, tokVars, rlVars, navVars, stVars>>
    \/ HandlersAlarm /\ UNCHANGED <<failVars, kvVars, xVars, verVars, tokVars, rlVars, navVars, stVars>>
    \/ HandlersTick /\ UNCHANGED <<failVars, kvVars, xVars, verVars, tokVars, rlVars, navVars, stVars>>

SpecRetry == Init /\ [][RetryNext]_vars

\* ============ SpecNavigate: track navigation by the handlers (Durable adapter)
\* AMAZON.NextIntent: getNextTrack of the Durable adapter is GET /next-track,
\* which reads the session and changes nothing
NextIntentHandler ==
    /\ dev # "dead"
    /\ Becomes(Obj, "NextIntent")
    /\ LET nextTrackId == nextTrackResult(Obj) IN
       IF nextTrackId = NoValue
       THEN UNCHANGED <<devVars, directed>>
       ELSE /\ Play(0)
            /\ directed' = nextTrackId
            /\ devStopPos' = NoValue
            /\ resumePos' = NoValue

\* AMAZON.PreviousIntent: the Durable adapter has no getPreviousTrack, the
\* call throws a TypeError and the ErrorHandler answers with speech only
PreviousIntentHandler ==
    /\ dev # "dead"
    /\ Becomes(Obj, "PreviousIntent")
    /\ UNCHANGED <<devVars, directed>>

\* AudioPlayer.PlaybackNearlyFinished: hasNextTrack, getNextTrack, then an
\* ENQUEUE directive for that track
PlaybackNearlyFinishedHandler ==
    /\ dev = "playing"
    /\ Becomes(Obj, "PlaybackNearlyFinished")
    /\ directed' = IF nextTrackResult(Obj) # NoValue
                   THEN nextTrackResult(Obj) ELSE directed
    /\ UNCHANGED devVars

NavFrame == UNCHANGED <<kvVars, xVars, verVars, tokVars, rlVars, stVars>>

NavigateNext ==
    \/ /\ PlayMusicIntentHandler /\ reissued' = 0
       /\ directed' = TrackAt(session'.trackIds, 0) /\ NavFrame
    \/ NextIntentHandler /\ UNCHANGED failVars /\ NavFrame
    \/ PreviousIntentHandler /\ UNCHANGED failVars /\ NavFrame
    \/ PlaybackNearlyFinishedHandler /\ UNCHANGED failVars /\ NavFrame
    \/ PlaybackStartedHandler /\ UNCHANGED <<failVars, directed>> /\ NavFrame
    \/ /\ PlaybackFailedHandler
       /\ directed' = IF reissued' = 0 /\ dev' = "starting"
                      THEN nextTrackResult(Obj) ELSE directed
       /\ NavFrame
    \/ HandlersAlarm /\ UNCHANGED <<failVars, directed>> /\ NavFrame
    \/ HandlersTick /\ UNCHANGED <<failVars, directed>> /\ NavFrame

SpecNavigate == Init /\ [][NavigateNext]_vars

\* ===================================== SpecKV: PlaylistManagerKVAdapter
\* Every Alexa request is its own Worker invocation with its own adapter.  An
\* adapter operation reads the session from KV (getSession), changes the
\* object it got and writes the whole object back (_saveSession); another
\* request may run between the read and the write.

\* createSession(sessionId, trackIds, currentIndex): one kv.put, no read
kvCreateSession(sessionId, trackIds, currentIndex, t) ==
    [sessionId |-> sessionId, trackIds |-> trackIds,
     currentIndex |-> currentIndex,
     updatedAt |-> t,
     offsetInMilliseconds |-> 0, playbackState |-> "IDLE",
     currentToken |-> TrackAt(trackIds, currentIndex),
     retryCount |-> 0, lastError |-> "null",
     playbackStartedAt |-> NoValue, playbackStartOffset |-> 0]

\* updatePlaybackPosition: the object written back
kvUpdatePlaybackPosition(s, offsetInMilliseconds, playbackState, t) ==
    [s EXCEPT !.offsetInMilliseconds = offsetInMilliseconds,
              !.playbackState = playbackState,
              !.updatedAt = t]

\* setPlaybackState: the object written back
kvSetPlaybackState(s, state, t) ==
    [s EXCEPT !.playbackState = state, !.updatedAt = t]

\* incrementRetryCount: the object written back
kvIncrementRetryCount(s, t) ==
    [s EXCEPT !.retryCount = @ + 1, !.updatedAt = t]

\* recordPlaybackStart: the object written back
kvRecordPlaybackStart(s, offsetInMilliseconds, t) ==
    [s EXCEPT !.playbackStartedAt = t,
              !.playbackStartOffset = offsetInMilliseconds,
              !.updatedAt = t]

\* estimatePlaybackPosition on the object read from KV
kvEstimatePlaybackPosition(s, t) ==
    IF s.playbackStartedAt = NoValue
    THEN s.offsetInMilliseconds
    ELSE Max(0, s.playbackStartOffset + (t - s.playbackStartedAt))

KVOps == {"updatePlaybackPosition", "setPlaybackState", "incrementRetryCount",
          "recordPlaybackStart"}

\* the object an operation writes back, from the object it read
kvWritten(op, s, arg, t) ==
    CASE op = "updatePlaybackPosition" ->
             kvUpdatePlaybackPosition(s, arg.offset, arg.state, t)
      [] op = "setPlaybackState" -> kvSetPlaybackState(s, arg.state, t)
      [] op = "incrementRetryCount" -> kvIncrementRetryCount(s, t)
      [] op = "recordPlaybackStart" -> kvRecordPlaybackStart(s, arg.offset, t)

\* PlayMusicIntent's createSession, issued while no other request is running
KVCreateSession ==
    /\ \A p \in Requests : kvPc[p] = "idle"
    /\ \E ids \in TrackLists \ {<<>>} :
          kv' = <<kvCreateSession(DeviceId, ids, 0, now)>>
    /\ kvIncrements' = 0
    /\ kvLastOp' = "createSession"
    /\ kvOps' = 0
    /\ UNCHANGED <<kvLocal, kvPc, kvArg>>

\* the arguments an operation takes (the others stay at their idle value)
KVArgs(op) ==
    CASE op = "updatePlaybackPosition" ->
             {[offset |-> o, state |-> st] : o \in OffsetArgs, st \in PlaybackStates}
      [] op = "setPlaybackState" ->
             {[offset |-> 0, state |-> st] : st \in PlaybackStates}
      [] op = "incrementRetryCount" -> {[offset |-> 0, state |-> "IDLE"]}
      [] op = "recordPlaybackStart" ->
             {[offset |-> o, state |-> "IDLE"] : o \in OffsetArgs}

\* a request starts an operation: getSession; without a session it returns
KVRead(p) ==
    /\ kvPc[p] = "idle"
    /\ kvOps < MaxKVOps
    /\ kvOps' = kvOps + 1
    /\ \E op \in KVOps :
          /\ op = "incrementRetryCount" => kvIncrements < MaxRetry
          /\ \E a \in KVArgs(op) :
                IF Len(kv) = 0
                THEN UNCHANGED <<kvArg, kvLocal, kvPc>>
                ELSE /\ kvArg' = [kvArg EXCEPT ![p] = a]
                     /\ kvLocal' = [kvLocal EXCEPT ![p] = kv]
                     /\ kvPc' = [kvPc EXCEPT ![p] = op]
    /\ UNCHANGED <<kv, kvIncrements, kvLastOp>>

\* the request finishes its operation: _saveSession of the changed object
KVWrite(p) ==
    /\ kvPc[p] # "idle"
    /\ kv' = <<kvWritten(kvPc[p], kvLocal[p][1], kvArg[p], now)>>
    /\ kvIncrements' = IF kvPc[p] = "incrementRetryCount"
                       THEN kvIncrements + 1 ELSE kvIncrements
    /\ kvLastOp' = kvPc[p]
    /\ kvPc' = [kvPc EXCEPT ![p] = "idle"]
    /\ kvLocal' = [kvLocal EXCEPT ![p] = <<>>]
    /\ kvArg' = [kvArg EXCEPT ![p] = [offset |-> 0, state |-> "IDLE"]]
    /\ UNCHANGED kvOps

KVTick ==
    /\ now + TickMs <= MaxKVTicks * TickMs
    /\ now' = now + TickMs
    /\ UNCHANGED <<session, stored, alarms, lastOp>>

KVNext ==
    \/ KVCreateSession /\ UNCHANGED <<doVars, devVars, failVars, xVars, verVars, tokVars, rlVars, navVars, stVars>>
    \/ \E p \in Requests : KVRead(p) /\ UNCHANGED <<doVars, devVars, failVars, xVars, verVars, tokVars, rlVars, navVars, stVars>>
    \/ \E p \in Requests : KVWrite(p) /\ UNCHANGED <<doVars, devVars, failVars, xVars, verVars, tokVars, rlVars, navVars, stVars>>
    \/ KVTick /\ UNCHANGED <<kvVars, devVars, failVars, xVars, verVars, tokVars, rlVars, navVars, stVars>>

SpecKV == Init /\ [][KVNext]_vars

\* ========================= SpecExpress: PlaylistManager (deploy-express)
\* sessions is an in-memory Map; the model follows the entry of one session
\* id (<<>> while the Map has none).  Calls are synchronous.

\* createSession(sessionId, trackIds, startIndex)
xCreateSession(X, trackIds, startIndex, t) ==
    IF Len(trackIds) = 0
    THEN X
    ELSE <<[queue |-> trackIds, currentIndex |-> startIndex,
            shuffle |-> FALSE, repeat |-> FALSE,
            offsetInMilliseconds |-> 0, playbackState |-> "IDLE",
            currentToken |-> NoValue,
            playbackStartedAt |-> NoValue, playbackStartOffset |-> 0,
            retryCount |-> 0, lastError |-> "null",
            createdAt |-> t, updatedAt |-> t]>>

\* a variant of nextTrack that goes back to the start at the end of the queue
\* whether or not repeat is enabled
xNextTrackAlwaysWraps(X) ==
    IF Len(X) = 0 THEN X
    ELSE IF X[1].currentIndex < Len(X[1].queue) - 1
         THEN <<[X[1] EXCEPT !.currentIndex = @ + 1]>>
         ELSE <<[X[1] EXCEPT !.currentIndex = 0]>>

\* nextTrack(sessionId)
xNextTrack(X) ==
    IF Len(X) = 0 THEN X
    ELSE IF X[1].currentIndex < Len(X[1].queue) - 1
         THEN <<[X[1] EXCEPT !.currentIndex = @ + 1]>>
         ELSE IF X[1].repeat
              THEN <<[X[1] EXCEPT !.currentIndex = 0]>>
              ELSE X

\* previousTrack(sessionId)
xPreviousTrack(X) ==
    IF Len(X) = 0 THEN X
    ELSE IF X[1].currentIndex > 0
         THEN <<[X[1] EXCEPT !.currentIndex = @ - 1]>>
         ELSE IF X[1].repeat
              THEN <<[X[1] EXCEPT !.currentIndex = Len(X[1].queue) - 1]>>
              ELSE X

\* nextTrack(sessionId): the value returned
xNextTrackResult(X) ==
    IF Len(X) = 0 THEN NoValue
    ELSE IF X[1].currentIndex < Len(X[1].queue) - 1
         THEN TrackAt(X[1].queue, X[1].currentIndex + 1)
         ELSE IF X[1].repeat THEN TrackAt(X[1].queue, 0) ELSE NoValue

\* previousTrack(sessionId): the value returned
xPreviousTrackResult(X) ==
    IF Len(X) = 0 THEN NoValue
    ELSE IF X[1].currentIndex > 0
         THEN TrackAt(X[1].queue, X[1].currentIndex - 1)
         ELSE IF X[1].repeat
              THEN TrackAt(X[1].queue, Len(X[1].queue) - 1)
              ELSE NoValue

\* setRepeat(sessionId, enabled)
xSetRepeat(X, enabled) ==
    IF Len(X) = 0 THEN X ELSE <<[X[1] EXCEPT !.repeat = enabled]>>

\* updatePlaybackPosition(sessionId, offsetInMilliseconds, playbackState)
xUpdatePlaybackPosition(X, offsetInMilliseconds, playbackState, t) ==
    IF Len(X) = 0 THEN X
    ELSE <<[X[1] EXCEPT !.offsetInMilliseconds = offsetInMilliseconds,
                        !.playbackState = playbackState,
                        !.updatedAt = t]>>

\* incrementRetryCount(sessionId)
xIncrementRetryCount(X, t) ==
    IF Len(X) = 0 THEN X
    ELSE <<[X[1] EXCEPT !.retryCount = @ + 1, !.updatedAt = t]>>

\* recordPlaybackStart(sessionId, offsetInMilliseconds)
xRecordPlaybackStart(X, offsetInMilliseconds, t) ==
    IF Len(X) = 0 THEN X
    ELSE <<[X[1] EXCEPT !.playbackStartedAt = t,
                        !.playbackStartOffset = offsetInMilliseconds,
                        !.offsetInMilliseconds = offsetInMilliseconds,
                        !.playbackState = "PLAYING",
                        !.updatedAt = t]>>

XBecomes(X, op) ==
    /\ xsessions' = X
    /\ xLastOp' = op
    /\ UNCHANGED <<doVars, devVars, failVars, kvVars, verVars, tokVars, rlVars, navVars, stVars>>

XCreateSession ==
    \E ids \in TrackLists, i \in IndexArgs :
        XBecomes(xCreateSession(xsessions, ids, i, now), "createSession")

XNextTrack == XBecomes(xNextTrack(xsessions), "nextTrack")

XPreviousTrack == XBecomes(xPreviousTrack(xsessions), "previousTrack")

XSetRepeat == \E b \in BOOLEAN : XBecomes(xSetRepeat(xsessions, b), "setRepeat")

XUpdatePlaybackPosition ==
    \E o \in OffsetArgs, st \in PlaybackStates :
        XBecomes(xUpdatePlaybackPosition(xsessions, o, st, now),
                 "updatePlaybackPosition")

XRecordPlaybackStart ==
    \E o \in OffsetArgs :
        XBecomes(xRecordPlaybackStart(xsessions, o, now), "recordPlaybackStart")

XTick ==
    /\ now + TickMs <= MaxTime
    /\ now' = now + TickMs
    /\ xLastOp' = "tick"
    /\ UNCHANGED <<session, stored, alarms, lastOp, devVars, failVars, kvVars,
                   xsessions, verVars, tokVars, rlVars, navVars, stVars>>

XNext ==
    \/ XCreateSession
    \/ XNextTrack
    \/ XPreviousTrack
    \/ XSetRepeat
    \/ XUpdatePlaybackPosition
    \/ XRecordPlaybackStart
    \/ XTick

SpecExpress == Init /\ [][XNext]_vars

\* ===================== SpecTracks: track navigation in both deployments
\* The Durable Object and the Express PlaylistManager receive the same calls
\* (session creation, position updates, track navigation) at a fixed clock
\* value; repeat exists in the PlaylistManager only.
Both(D, X, op) ==
    /\ Becomes(D, op)
    /\ xsessions' = X
    /\ xLastOp' = op
    /\ UNCHANGED <<devVars, failVars, kvVars, verVars, tokVars, rlVars, navVars, stVars>>

TracksCreateSession ==
    \E id \in SessionIdArgs, ids \in TrackLists, i \in IndexArgs :
        Both(createSession(Obj, id, ids, i, now),
             xCreateSession(xsessions, ids, i, now), "createSession")

TracksUpdatePlaybackPosition ==
    \E o \in OffsetArgs, st \in PlaybackStates :
        Both(updatePlaybackPosition(Obj, o, st, now),
             xUpdatePlaybackPosition(xsessions, o, st, now),
             "updatePlaybackPosition")

TracksNextTrack == Both(nextTrack(Obj, now), xNextTrack(xsessions), "nextTrack")

TracksPreviousTrack ==
    Both(previousTrack(Obj, now), xPreviousTrack(xsessions), "previousTrack")

TracksSetRepeat ==
    \E b \in BOOLEAN : Both(Obj, xSetRepeat(xsessions, b), "setRepeat")

TracksIncrementRetryCount ==
    /\ session.retryCount < MaxRetry
    /\ Both(incrementRetryCount(Obj, now), xIncrementRetryCount(xsessions, now),
            "incrementRetryCount")

TracksNext ==
    \/ TracksCreateSession
    \/ TracksIncrementRetryCount
    \/ TracksUpdatePlaybackPosition
    \/ TracksNextTrack
    \/ TracksPreviousTrack
    \/ TracksSetRepeat

SpecTracks == Init /\ [][TracksNext]_vars

\* ================= SpecVerify: authentication of the POST /alexa request
\* A URL string is the record of its components as they are written: scheme
\* ("" when the string has none), host and path as sequences of pieces, port
\* ("" when none is written).
undefined == "undefined"

AllCertUrls ==
    [scheme : {"https", "HTTPS", "http", ""},
     host : { <<"s3.amazonaws.com">>, <<"S3.AMAZONAWS.COM">>,
              <<"s3.amazonaws.com", "-", "global">>,
              <<"s3.amazonaws.com", "-", "evil.example">>,
              <<"s3.amazonaws.com", ".", "evil.example">>,
              <<"evil.example">> },
     port : {"", "443", "8443"},
     path : { <<"echo.api", "cert.pem">>, <<"echo.api", "..", "cert.pem">>,
              <<"x", "..", "echo.api", "cert.pem">>, <<"ECHO.API", "cert.pem">>,
              <<"echo.api">>, <<"cert.pem">> }]

toLowerCase(str) ==
    CASE str = "HTTPS" -> "https"
      [] str = "S3.AMAZONAWS.COM" -> "s3.amazonaws.com"
      [] str = "ECHO.API" -> "echo.api"
      [] OTHER -> str

startsWith(str, prefix) ==
    Len(str) >= Len(prefix) /\ SubSeq(str, 1, Len(prefix)) = prefix

\* the URL parser resolves "." and ".." segments of the path
RECURSIVE removeDotSegments(_, _)
removeDotSegments(input, output) ==
    IF input = <<>> THEN output
    ELSE LET segment == Head(input) IN
         removeDotSegments(Tail(input),
             CASE segment = "." -> output
               [] segment = ".." ->
                      IF output = <<>> THEN output
                      ELSE SubSeq(output, 1, Len(output) - 1)
               [] OTHER -> Append(output, segment))

\* new URL(url): <<>> when the constructor throws, else <<the parsed URL>>;
\* scheme and host are lower-cased, the scheme's default port reads as ""
URL(url) ==
    IF url.scheme = "" THEN <<>>
    ELSE LET scheme == toLowerCase(url.scheme)
             defaultPort == IF scheme = "https" THEN "443" ELSE "80"
         IN  << [protocol |-> IF scheme = "https" THEN "https:" ELSE "http:",
                 hostname |-> [i \in DOMAIN url.host |-> toLowerCase(url.host[i])],
                 port     |-> IF url.port = defaultPort THEN "" ELSE url.port,
                 pathname |-> removeDotSegments(url.path, <<>>)] >>

validHosts == { <<"s3.amazonaws.com">>, <<"s3.amazonaws.com", "-", "global">> }

isValidCertUrlAnyPort(url) ==
    LET parsed == URL(url) IN
    /\ Len(parsed) > 0
    /\ parsed[1].protocol = "https:"
    /\ \E host \in validHosts :
           \/ parsed[1].hostname = host
           \/ startsWith(parsed[1].hostname, <<"s3.amazonaws.com", "-">>)
    /\ Len(parsed[1].pathname) > 1
    /\ startsWith(parsed[1].pathname, <<"echo.api">>)

isValidCertUrl(url) ==
    LET parsed == URL(url) IN
    /\ Len(parsed) > 0
    /\ parsed[1].protocol = "https:"
    /\ \E host \in validHosts :
           \/ parsed[1].hostname = host
           \/ startsWith(parsed[1].hostname, <<"s3.amazonaws.com", "-">>)
    \* pathname.startsWith('/echo.api/'): first segment echo.api, then a "/"
    /\ Len(parsed[1].pathname) > 1
    /\ startsWith(parsed[1].pathname, <<"echo.api">>)
    /\ ~(parsed[1].port # "" /\ parsed[1].port # "443")

\* ---- request bodies
\* The body bytes are the members in the order they are written, and whether
\* white space is written between the tokens.  A member is <<path, value>>.
TimestampWindowMs == 150000

Timestamps ==
    { "1969-12-31T23:57:29.999Z", "1969-12-31T23:57:30.000Z",
      "1970-01-01T00:02:30.000Z",
      "1970-01-01T00:02:30.001Z", "yesterday" }

SkillId == "amzn1.ask.skill.1"

\* new Date(timestamp).getTime(): <<>> for NaN, else <<milliseconds>>
DateGetTime(timestamp) ==
    CASE timestamp = "1969-12-31T23:57:29.999Z" -> << 0 - 150001 >>
      [] timestamp = "1969-12-31T23:57:30.000Z" -> << 0 - 150000 >>
      [] timestamp = "1970-01-01T00:02:30.000Z" -> << 150000 >>
      [] timestamp = "1970-01-01T00:02:30.001Z" -> << 150001 >>
      [] OTHER -> <<>>

Bodies ==
    LET TimestampMembers ==
            { <<>> } \cup { << <<"request.timestamp", t>> >> : t \in Timestamps }
        ApplicationMembers ==
            { <<>>,
              << <<"session.application.applicationId", SkillId>> >>,
              << <<"session.application.applicationId", "amzn1.ask.skill.2">> >>,
              << <<"context.System.application.applicationId", SkillId>> >>,
              << <<"session.application.applicationId", "amzn1.ask.skill.2">>,
                 <<"context.System.application.applicationId", SkillId>> >> }
    IN  { [members |-> m, ws |-> b] :
            m \in { t \o a : t \in TimestampMembers, a \in ApplicationMembers }
                  \cup { a \o t : t \in TimestampMembers, a \in ApplicationMembers },
            b \in BOOLEAN }

\* JSON.parse: an object keeps its keys in the order they first appear, a
\* repeated key keeps its last value, white space is dropped
RECURSIVE parseMembers(_, _)
parseMembers(members, object) ==
    IF members = <<>> THEN object
    ELSE LET member == Head(members)
             at == {i \in DOMAIN object : object[i][1] = member[1]}
         IN  parseMembers(Tail(members),
                 IF at = {} THEN Append(object, member)
                 ELSE [object EXCEPT ![CHOOSE i \in at : TRUE] = member])

JSONparse(text) == parseMembers(text.members, <<>>)

\* JSON.stringify: the members in key order, no white space
JSONstringify(object) == [members |-> object, ws |-> FALSE]

\* object?.a?.b
Get(object, path) ==
    LET at == {i \in DOMAIN object : object[i][1] = path} IN
    IF at = {} THEN undefined ELSE object[CHOOSE i \in at : TRUE][2]

\* verifyTimestamp / verifySkillId: the message of the error thrown, or "none"
verifyTimestampExclusive(alexaRequest, t) ==
    LET timestamp == Get(alexaRequest, "request.timestamp")
        requestTime == DateGetTime(timestamp)
    IN  IF timestamp = undefined THEN "Missing request timestamp"
        ELSE IF Len(requestTime) > 0 /\ Abs(t - requestTime[1]) >= TimestampWindowMs
             THEN "Request timestamp too old"
             ELSE "none"

verifyTimestamp(alexaRequest, t) ==
    LET timestamp == Get(alexaRequest, "request.timestamp")
        requestTime == DateGetTime(timestamp)
    IN  IF timestamp = undefined THEN "Missing request timestamp"
        ELSE IF Len(requestTime) > 0 /\ Abs(t - requestTime[1]) > TimestampWindowMs
             THEN "Request timestamp too old"
             ELSE "none"

applicationId(alexaRequest) ==
    IF Get(alexaRequest, "session.application.applicationId") # undefined
    THEN Get(alexaRequest, "session.application.applicationId")
    ELSE Get(alexaRequest, "context.System.application.applicationId")

verifySkillId(alexaRequest, expectedSkillId) ==
    IF applicationId(alexaRequest) # expectedSkillId
    THEN "Skill ID mismatch" ELSE "none"

\* ---- signatures and certificates
\* A signature is the key it was made with, the digest, and the bytes signed.
\* The header pairs <<Signature-256, Signature>> a sender may attach to body:
SignatureHeaders(body) ==
    LET Sign(key, alg, text) == [key |-> key, alg |-> alg, over |-> text]
        reformatted == [body EXCEPT !.ws = ~body.ws]
    IN  { << <<>>, <<>> >>,
          << <<Sign("amazon", "SHA-256", body)>>, <<Sign("amazon", "SHA-1", body)>> >>,
          << <<Sign("amazon", "SHA-256", body)>>, <<>> >>,
          << <<>>, <<Sign("amazon", "SHA-1", body)>> >>,
          << <<Sign("amazon", "SHA-256", reformatted)>>,
             <<Sign("amazon", "SHA-1", reformatted)>> >>,
          << <<Sign("other", "SHA-256", body)>>, <<Sign("other", "SHA-1", body)>> >> }

\* what a server may answer to fetch(certUrl): a failure status, a page that
\* is no certificate, or a PEM certificate; only the allow-listed hosts
\* themselves serve Amazon's certificate
Responses(url) ==
    IF URL(url) = <<>> THEN { [ok |-> FALSE, text |-> ""] }
    ELSE IF URL(url)[1].hostname \in validHosts
    THEN { [ok |-> FALSE, text |-> ""], [ok |-> TRUE, text |-> "PEM amazon"] }
    ELSE { [ok |-> FALSE, text |-> ""], [ok |-> TRUE, text |-> "html"],
           [ok |-> TRUE, text |-> "PEM other"],
           [ok |-> TRUE, text |-> "PEM garbled"] }

\* extractPublicKey: <<>> when the certificate does not parse, else <<key>>
extractPublicKey(certPem) ==
    CASE certPem = "PEM amazon" -> <<"amazon">>
      [] certPem = "PEM other" -> <<"other">>
      [] OTHER -> <<>>

\* verifySignature: the key was imported for RSASSA-PKCS1-v1_5 with SHA-256
verifySignature(publicKey, signature, requestBody) ==
    /\ signature.key = publicKey
    /\ signature.alg = "SHA-256"
    /\ signature.over = requestBody

\* ---- requests
VerifyUrls ==
    LET CertUrl(scheme, host, port, path) ==
            [scheme |-> scheme, host |-> host, port |-> port, path |-> path]
        cert == <<"echo.api", "cert.pem">>
    IN  { CertUrl("https", <<"s3.amazonaws.com">>, "", cert),
          CertUrl("https", <<"s3.amazonaws.com", "-", "evil.example">>, "", cert),
          CertUrl("http", <<"s3.amazonaws.com">>, "", cert),
          CertUrl("https", <<"evil.example">>, "", cert),
          CertUrl("https", <<"s3.amazonaws.com">>, "8443", cert),
          CertUrl("https", <<"s3.amazonaws.com">>, "", <<"echo.api", "..", "cert.pem">>),
          CertUrl("", <<"s3.amazonaws.com">>, "", cert) }

\* verifySignature argument / ALEXA_VERIFY_SIGNATURE, NODE_ENV, skill id
Configs(deployment) ==
    { [enabled |-> TRUE, production |-> FALSE, skillId |-> SkillId],
      [enabled |-> TRUE, production |-> FALSE, skillId |-> NullId],
      [enabled |-> FALSE, production |-> FALSE, skillId |-> SkillId] }
    \cup IF deployment = "express"
         THEN { [enabled |-> FALSE, production |-> TRUE, skillId |-> SkillId] }
         ELSE {}

HttpRequests(deployment, urls, bodies) ==
    UNION { { [deployment |-> deployment, config |-> c, certUrl |-> u,
               signature256 |-> h[1], signature |-> h[2], body |-> b] :
                c \in Configs(deployment),
                u \in {<<>>} \cup {<<x>> : x \in urls},
                h \in SignatureHeaders(b) } : b \in bodies }

\* ---- AlexaVerifier (deploy-workers)
\* request.headers.get('Signature-256') || request.headers.get('Signature')
headerSignature(r) ==
    IF r.signature256 # <<>> THEN r.signature256 ELSE r.signature

\* verify up to its first await: the message of the error thrown, or "none"
verifyWithoutUrlCheck(r) ==
    IF r.certUrl = <<>> \/ headerSignature(r) = <<>>
    THEN "Missing signature headers"
    ELSE "none"

verify(r) ==
    IF r.certUrl = <<>> \/ headerSignature(r) = <<>>
    THEN "Missing signature headers"
    ELSE IF ~isValidCertUrl(r.certUrl[1])
         THEN "Invalid certificate URL format"
         ELSE "none"

Cached(url) == {e \in certCache : e[1] = url}

VerEnds(result, error) ==
    /\ vpc' = result
    /\ verror' = error

WorkersVerifyAlexaRequest(requests) ==
    /\ vpc = "idle"
    /\ \E r \in requests :
        /\ vreq' = <<r>>
        /\ IF ~r.config.enabled THEN VerEnds("accepted", "none")
           ELSE IF verify(r) # "none" THEN VerEnds("rejected", verify(r))
           ELSE VerEnds("getCertificate", "none")
    /\ UNCHANGED <<certCache, reqBody, certReads, sigChecked>>

\* getCertificate: await this.certCache.get(certUrl)
GetCertificate ==
    /\ vpc = "getCertificate"
    /\ certReads' = certReads \cup {"cache"}
    /\ vpc' = IF Cached(vreq[1].certUrl[1]) # {} THEN "extractPublicKey" ELSE "fetch"
    /\ UNCHANGED <<vreq, verror, certCache, reqBody, sigChecked>>

\* getCertificate: await fetch(certUrl), the checks on the answer, the put
Fetch ==
    /\ vpc = "fetch"
    /\ certReads' = certReads \cup {"fetch"}
    /\ \E response \in Responses(vreq[1].certUrl[1]) :
        IF ~response.ok
        THEN VerEnds("rejected", "Certificate download failed") /\ UNCHANGED certCache
        ELSE IF response.text \notin {"PEM amazon", "PEM other", "PEM garbled"}
        THEN VerEnds("rejected", "Invalid certificate format") /\ UNCHANGED certCache
        ELSE /\ certCache' = (certCache \ Cached(vreq[1].certUrl[1]))
                                 \cup {<<vreq[1].certUrl[1], response.text>>}
             /\ VerEnds("extractPublicKey", "none")
    /\ UNCHANGED <<vreq, reqBody, sigChecked>>

\* verify from extractPublicKey to its return
VerifySignature ==
    /\ vpc = "extractPublicKey"
    /\ LET r == vreq[1]
           certPem == (CHOOSE e \in Cached(r.certUrl[1]) : TRUE)[2]
           publicKey == extractPublicKey(certPem)
           isValid == verifySignature(publicKey[1], headerSignature(r)[1], r.body)
           alexaRequest == JSONparse(r.body)
       IN  IF Len(publicKey) = 0
           THEN /\ VerEnds("rejected", "Certificate parsing failed")
                /\ UNCHANGED <<reqBody, sigChecked>>
           ELSE IF ~isValid
           THEN /\ VerEnds("rejected", "Invalid signature")
                /\ sigChecked' = "invalid"
                /\ UNCHANGED reqBody
           ELSE /\ sigChecked' = "valid"
                /\ reqBody' = <<alexaRequest>>
                /\ IF verifyTimestamp(alexaRequest, now) # "none"
                   THEN VerEnds("rejected", verifyTimestamp(alexaRequest, now))
                   ELSE IF r.config.skillId # NullId
                           /\ verifySkillId(alexaRequest, r.config.skillId) # "none"
                   THEN VerEnds("rejected", "Skill ID mismatch")
                   ELSE VerEnds("accepted", "none")
    /\ UNCHANGED <<vreq, certCache, certReads>>

\* ---- verifyAlexaRequest (deploy-express)
\* app.use(express.json()) runs before the route's middleware
ExpressJson(requests) ==
    /\ vpc = "idle"
    /\ \E r \in requests :
        /\ vreq' = <<r>>
        /\ reqBody' = <<JSONparse(r.body)>>
    /\ VerEnds("verifyAlexaRequest", "none")
    /\ UNCHANGED <<certCache, certReads, sigChecked>>

\* the middleware up to its call of the alexa-verifier library
ExpressVerifyAlexaRequest ==
    /\ vpc = "verifyAlexaRequest"
    /\ LET r == vreq[1] IN
       IF ~r.config.enabled /\ ~r.config.production
       THEN VerEnds("accepted", "none")
       ELSE IF r.certUrl = <<>> \/ r.signature = <<>>
       THEN VerEnds("rejected", "Missing signature headers")
       ELSE VerEnds("alexaVerifier", "none")
    /\ UNCHANGED <<vreq, certCache, reqBody, certReads, sigChecked>>

\* The library reports no error only for a certificate URL of the required
\* form, Amazon's certificate behind it, and a signature made with its key
\* over the string it is handed; it may report an error for any request.
alexaVerifier(certUrl, signature, requestBody) ==
    /\ isValidCertUrl(certUrl)
    /\ [ok |-> TRUE, text |-> "PEM amazon"] \in Responses(certUrl)
    /\ signature.key = "amazon"
    /\ signature.over = requestBody

\* the library's call and the callback it is given
ExpressAlexaVerifier ==
    /\ vpc = "alexaVerifier"
    /\ LET r == vreq[1]
           requestBody == JSONstringify(reqBody[1])
           alexaRequest == reqBody[1]
           timestamp == Get(alexaRequest, "request.timestamp")
           requestTime == DateGetTime(timestamp)
           verifies == alexaVerifier(r.certUrl[1], r.signature[1], requestBody)
       IN  \E passes \in BOOLEAN :
           IF ~(passes /\ verifies)
           THEN /\ VerEnds("rejected", "Invalid request signature")
                /\ sigChecked' = IF verifies THEN "none" ELSE "invalid"
           ELSE /\ sigChecked' = "valid"
                /\ IF /\ timestamp # undefined
                      /\ Len(requestTime) > 0
                      /\ Abs(now - requestTime[1]) > TimestampWindowMs
                   THEN VerEnds("rejected", "Request timestamp too old")
                   ELSE IF r.config.skillId # NullId
                           /\ applicationId(alexaRequest) # r.config.skillId
                   THEN VerEnds("rejected", "Unauthorized skill")
                   ELSE VerEnds("accepted", "none")
    /\ UNCHANGED <<vreq, certCache, reqBody, certReads>>

\* the response is sent; the cache outlives the request
VerDone ==
    /\ vpc \in {"accepted", "rejected"}
    /\ vreq' = <<>> /\ vpc' = "idle" /\ verror' = "none"
    /\ reqBody' = <<>> /\ certReads' = {} /\ sigChecked' = "none"
    /\ UNCHANGED certCache

VerFrame == UNCHANGED <<doVars, devVars, failVars, kvVars, xVars, tokVars, rlVars, navVars, stVars>>

VerifyNext ==
    \/ WorkersVerifyAlexaRequest(HttpRequests("workers", VerifyUrls, Bodies)) /\ VerFrame
    \/ GetCertificate /\ VerFrame
    \/ Fetch /\ VerFrame
    \/ VerifySignature /\ VerFrame
    \/ ExpressJson(HttpRequests("express", VerifyUrls, Bodies)) /\ VerFrame
    \/ ExpressVerifyAlexaRequest /\ VerFrame
    \/ ExpressAlexaVerifier /\ VerFrame
    \/ VerDone /\ VerFrame

SpecVerify == Init /\ [][VerifyNext]_vars

\* the HTTP status the deployment answers a failed verification with: the
\* Express middleware per failure, the Workers /alexa route 401 from its one
\* catch block
ResponseStatus(deployment, error) ==
    IF deployment = "workers" THEN 401
    ELSE CASE error = "Missing signature headers" -> 400
           [] error = "Invalid request signature" -> 401
           [] error = "Request timestamp too old" -> 400
           [] error = "Unauthorized skill" -> 403

\* ---- SpecCertUrl: verify up to its first await, over every certificate URL
CertUrlRequests ==
    HttpRequests("workers", AllCertUrls,
                 { [members |-> << <<"request.timestamp", "1970-01-01T00:02:30.000Z">> >>,
                    ws |-> FALSE] })

CertUrlNext ==
    \/ WorkersVerifyAlexaRequest(CertUrlRequests) /\ VerFrame
    \/ VerDone /\ VerFrame

SpecCertUrl == Init /\ [][CertUrlNext]_vars

\* ================= SpecToken: stream tokens (generateStreamToken, verifyStreamToken)
\* Date.now() is far from the epoch: the model clock counts from EpochSeconds.
EpochSeconds == 1700000000

nowSeconds(t) == EpochSeconds + (t \div 1000)

TokenTrackIds == {"track-1", "track-2"}

ExpiresInArgs == {0 - 10, 0, 10, 20}

Secrets == {"secret", "other-secret"}

\* A string is the sequence of its characters.  One character stands for one
\* member of the JSON text it is part of: its key, its string or number
\* value, and the alphabet it is written in.
Char(name, str, num) == [name |-> name, s |-> str, n |-> num, enc |-> "plain"]

PayloadKeys == <<"trackId", "skillId", "type", "iat", "exp", "iss", "sub">>

\* JSON.stringify(payload) and JSON.parse: <<>> when the parser throws
stringifyPayloadWithoutSkill(payload) ==
    << Char("trackId", payload.trackId, 0), Char("skillId", "", 0),
       Char("type", payload.type, 0), Char("iat", "", payload.iat),
       Char("exp", "", payload.exp), Char("iss", payload.iss, 0),
       Char("sub", payload.sub, 0) >>

stringifyPayload(payload) ==
    << Char("trackId", payload.trackId, 0), Char("skillId", payload.skillId, 0),
       Char("type", payload.type, 0), Char("iat", "", payload.iat),
       Char("exp", "", payload.exp), Char("iss", payload.iss, 0),
       Char("sub", payload.sub, 0) >>

parsePayload(text) ==
    IF [i \in DOMAIN text |-> text[i].name] # PayloadKeys THEN <<>>
    ELSE << [trackId |-> text[1].s, skillId |-> text[2].s, type |-> text[3].s,
             iat |-> text[4].n, exp |-> text[5].n, iss |-> text[6].s,
             sub |-> text[7].s] >>

base64UrlEncode(input) == [i \in DOMAIN input |-> [input[i] EXCEPT !.enc = "base64url"]]

\* base64UrlDecode: <<>> when atob throws on a character outside the alphabet
base64UrlDecode(input) ==
    IF \E i \in DOMAIN input : input[i].enc # "base64url" THEN <<>>
    ELSE << [i \in DOMAIN input |-> [input[i] EXCEPT !.enc = "plain"]] >>

\* HMAC-SHA256 of data under secret, base64url-encoded: one value per
\* (data, secret), different for different pairs
signHS256IgnoringData(data, secret) == << [data |-> <<>>, key |-> secret] >>

signHS256(data, secret) == << [data |-> data, key |-> secret] >>

signToken(payload, secret) ==
    LET encodedHeader == base64UrlEncode(<<Char("alg", "HS256", 0), Char("typ", "JWT", 0)>>)
        encodedPayload == base64UrlEncode(stringifyPayload(payload))
        signatureInput == <<encodedHeader, encodedPayload>>
    IN  [isString |-> TRUE,
         parts |-> <<encodedHeader, encodedPayload, signHS256(signatureInput, secret)>>]

generateStreamToken(trackId, skillId, secret, expiresIn, t) ==
    signToken([trackId |-> trackId, skillId |-> skillId, type |-> "stream",
               iat |-> nowSeconds(t), exp |-> nowSeconds(t) + expiresIn,
               iss |-> "alexa-music-workers", sub |-> trackId], secret)

\* the body of verifyStreamToken's try block: threw, or the value returned
\* (<<>> for null, else <<payload>>)
verifyStreamTokenIgnoringExp(token, secret, t) ==
    LET Returns(value) == [threw |-> FALSE, value |-> value]
        Throws == [threw |-> TRUE, value |-> <<>>]
        parts == token.parts
        decoded == base64UrlDecode(parts[2])
        payload == parsePayload(decoded[1])
    IN  IF ~token.isString THEN Throws
        ELSE IF Len(parts) # 3 THEN Returns(<<>>)
        ELSE IF parts[3] # signHS256(<<parts[1], parts[2]>>, secret) THEN Returns(<<>>)
        ELSE IF decoded = <<>> \/ payload = <<>> THEN Throws
        ELSE IF payload[1].type # "stream" THEN Returns(<<>>)
        ELSE Returns(payload)

verifyStreamTokenTry(token, secret, t) ==
    LET Returns(value) == [threw |-> FALSE, value |-> value]
        Throws == [threw |-> TRUE, value |-> <<>>]
        parts == token.parts
        decoded == base64UrlDecode(parts[2])
        payload == parsePayload(decoded[1])
    IN  IF ~token.isString THEN Throws
        ELSE IF Len(parts) # 3 THEN Returns(<<>>)
        ELSE IF parts[3] # signHS256(<<parts[1], parts[2]>>, secret) THEN Returns(<<>>)
        ELSE IF decoded = <<>> \/ payload = <<>> THEN Throws
        ELSE IF payload[1].exp # 0 /\ payload[1].exp < nowSeconds(t) THEN Returns(<<>>)
        ELSE IF payload[1].type # "stream" THEN Returns(<<>>)
        ELSE Returns(payload)

verifyStreamTokenUncaught(token, secret, t) == verifyStreamTokenTry(token, secret, t)

verifyStreamToken(token, secret, t) ==
    LET tried == verifyStreamTokenTry(token, secret, t) IN
    IF tried.threw THEN [threw |-> FALSE, value |-> <<>>] ELSE tried

TokIs(token, trackId, skillId, expiresIn, origin) ==
    /\ tok' = << [token |-> token, trackId |-> trackId, skillId |-> skillId,
                  expiresIn |-> expiresIn, issuedAt |-> now, origin |-> origin] >>
    /\ tokResult' = <<>>
    /\ streamed' = <<>>

GenerateStreamToken ==
    \E trackId \in TokenTrackIds, skillId \in {SkillId, "amzn1.ask.skill.2"},
       expiresIn \in ExpiresInArgs :
        TokIs(generateStreamToken(trackId, skillId, "secret", expiresIn, now),
              trackId, skillId, expiresIn, "generated")

\* another token signed with the same secret that is no stream token
SignOtherToken ==
    \E trackId \in TokenTrackIds :
        TokIs(signToken([trackId |-> trackId, skillId |-> SkillId, type |-> "session",
                         iat |-> nowSeconds(now), exp |-> nowSeconds(now) + 15,
                         iss |-> "alexa-music-workers", sub |-> trackId], "secret"),
              trackId, SkillId, 15, "other type")

\* the holder of a generated token changes one character of its payload
\* segment or of its signature segment
ChangeCharacter ==
    /\ tok # <<>> /\ tok[1].origin = "generated"
    /\ LET token == tok[1].token
           ch(i) == token.parts[2][i]
       IN  \/ \E i \in DOMAIN token.parts[2] :
                \E c \in { [ch(i) EXCEPT !.s = "x"], [ch(i) EXCEPT !.n = ch(i).n + 15],
                           [ch(i) EXCEPT !.enc = "invalid"] } :
                    /\ c # ch(i)
                    /\ tok' = << [tok[1] EXCEPT !.token.parts[2][i] = c,
                                                !.origin = "payload changed"] >>
           \/ tok' = << [tok[1] EXCEPT !.token.parts[3][1].key = "changed",
                                       !.origin = "signature changed"] >>
    /\ tokResult' = <<>>
    /\ streamed' = <<>>

\* what else may arrive as ?token=: too few or too many segments, no string
MalformToken ==
    /\ tok # <<>> /\ tok[1].origin = "generated"
    /\ LET parts == tok[1].token.parts IN
       \E token \in { [isString |-> TRUE, parts |-> SubSeq(parts, 1, 2)],
                      [isString |-> TRUE, parts |-> Append(parts, parts[3])],
                      [isString |-> FALSE, parts |-> parts] } :
           tok' = << [tok[1] EXCEPT !.token = token, !.origin = "malformed"] >>
    /\ tokResult' = <<>>
    /\ streamed' = <<>>

VerifyStreamToken ==
    /\ tok # <<>>
    /\ \E secret \in Secrets :
        tokResult' = << [secret |-> secret,
                         result |-> verifyStreamToken(tok[1].token, secret, now)] >>
    /\ streamed' = <<>>
    /\ UNCHANGED tok

\* GET /stream/<trackId>[?token=...]: the status answered.  Neither the
\* Workers route nor the Express controller reads the token.
StreamResponse(trackId, token, upstreamOk) ==
    IF trackId \notin TokenTrackIds THEN 404
    ELSE IF ~upstreamOk THEN 502
    ELSE 200

Stream ==
    /\ \E trackId \in TokenTrackIds \cup {"unknown"}, upstreamOk \in BOOLEAN,
          token \in {<<>>} \cup {<<t[1].token>> : t \in {tok} \ {<<>>}} :
           streamed' = << [trackId |-> trackId, withToken |-> token # <<>>,
                           status |-> StreamResponse(trackId, token, upstreamOk)] >>
    /\ tokResult' = <<>>
    /\ UNCHANGED tok

TokTick ==
    /\ now + TickMs <= MaxTime
    /\ now' = now + TickMs
    /\ tokResult' = <<>> /\ streamed' = <<>>
    /\ UNCHANGED <<session, stored, alarms, lastOp, tok>>

TokFrame == UNCHANGED <<doVars, devVars, failVars, kvVars, xVars, verVars, rlVars, navVars, stVars>>

TokenNext ==
    \/ GenerateStreamToken /\ TokFrame
    \/ SignOtherToken /\ TokFrame
    \/ ChangeCharacter /\ TokFrame
    \/ MalformToken /\ TokFrame
    \/ VerifyStreamToken /\ TokFrame
    \/ Stream /\ TokFrame
    \/ TokTick /\ UNCHANGED <<devVars, failVars, kvVars, xVars, verVars, rlVars, navVars, stVars>>

SpecToken == Init /\ [][TokenNext]_vars

\* ------------------------------------------------- SpecRateLimit
\* The in-memory rate limiter of the Workers deployment
\* (src/deploy-workers/src/middleware/rateLimit.js).  Time advances in steps of
\* RLTickMs so that both a window and the age at which cleanupOldEntries
\* removes an entry are reached.

CleanupAgeMs == 300000

RLTickMs == CleanupAgeMs \div 3

MaxRLTicks == 5

MaxRLCalls == 3

\* start of a call history whose window is over
RLOver == 0 - 1

\* options of createRateLimiter: limit in requests, window in seconds
RLOptions == [limit : {0, 1, 2}, window : {100, 500}, keyPrefix : {"ratelimit"}]

\* the CF-Connecting-IP header of a request
RLHeaders == {"1.1.1.1", undefined}

\* cleanupOldEntries that removes nothing
cleanupOldEntriesKeepsAll(cache, t) == cache

cleanupOldEntries(cache, t) ==
    [k \in DOMAIN cache |->
        IF cache[k] # <<>> /\ t - cache[k][1].timestamp > CleanupAgeMs
        THEN <<>> ELSE cache[k]]

\* the points of the try block at which an internal error is injected
RLFaults == {"none", "get", "set"}

\* rateLimitCheck with a window that is never taken to have elapsed
rateLimitCheckNeverReset(cache, header, options, t, random, fault) ==
    LET ip == IF header = undefined THEN "unknown" ELSE header
        key == options.keyPrefix \o ":" \o ip
        cached == cache[key]
    IN  IF cached # <<>>
        THEN IF cached[1].count >= options.limit
             THEN [cache |-> cache, key |-> key, allowed |-> FALSE, remaining |-> 0,
                   caught |-> FALSE, swept |-> FALSE]
             ELSE [cache |-> [cache EXCEPT ![key] =
                                <<[cached[1] EXCEPT !.count = @ + 1]>>],
                   key |-> key, allowed |-> TRUE,
                   remaining |-> options.limit - (cached[1].count + 1),
                   caught |-> FALSE, swept |-> FALSE]
        ELSE [cache |-> [cache EXCEPT ![key] = <<[count |-> 1, timestamp |-> t]>>],
              key |-> key, allowed |-> TRUE, remaining |-> options.limit - 1,
              caught |-> FALSE, swept |-> FALSE]

\* rateLimitCheck whose catch block denies the request
rateLimitCheckFailClosed(cache, header, options, t, random, fault) ==
    LET ip == IF header = undefined THEN "unknown" ELSE header
        key == options.keyPrefix \o ":" \o ip
    IN  [cache |-> cache, key |-> key, allowed |-> fault = "none", remaining |-> 0,
         caught |-> fault # "none", swept |-> FALSE]

\* rateLimitCheck(request, kvNamespace, options) at time t; random is the
\* outcome of Math.random() < 0.01.  fault names the statement of the try
\* block that throws, if it is reached: the Map lookup, or the Map update of
\* the new-window branch.
\* The catch block answers { allowed: true, remaining: limit }.
rateLimitCheck(cache, header, options, t, random, fault) ==
    LET ip == IF header = undefined THEN "unknown" ELSE header
        windowMs == options.window * 1000
        key == options.keyPrefix \o ":" \o ip
        cached == cache[key]
        catch(c) == [cache |-> c, key |-> key, allowed |-> TRUE,
                     remaining |-> options.limit, caught |-> TRUE, swept |-> FALSE]
        return(c, allowed, remaining, swept) ==
            [cache |-> c, key |-> key, allowed |-> allowed, remaining |-> remaining,
             caught |-> FALSE, swept |-> swept]
    IN  IF fault = "get" THEN catch(cache)
        ELSE IF cached # <<>> /\ (t - cached[1].timestamp) < windowMs
        THEN IF cached[1].count >= options.limit
             THEN return(cache, FALSE, 0, FALSE)
             ELSE return([cache EXCEPT ![key] = <<[cached[1] EXCEPT !.count = @ + 1]>>],
                         TRUE, options.limit - (cached[1].count + 1), FALSE)
        ELSE IF fault = "set" THEN catch(cache)
        ELSE LET set == [cache EXCEPT ![key] = <<[count |-> 1, timestamp |-> t]>>]
             IN  return(IF random THEN cleanupOldEntries(set, t) ELSE set,
                        TRUE, options.limit - 1, random)

\* createRateLimiter(kvNamespace, options)
CreateRateLimiter(optionsGiven) ==
    /\ rlOptions = <<>>
    /\ \E options \in optionsGiven : rlOptions' = <<options>>
    /\ UNCHANGED <<rateLimitCache, rlCalls, rlLast>>

\* the function createRateLimiter returned, called for one request: 429 when
\* the check does not allow it, null (0 here) to continue to the next handler
RateLimiter(faults) ==
    /\ rlOptions # <<>>
    /\ \E header \in RLHeaders, random \in BOOLEAN, fault \in faults :
        LET options == rlOptions[1]
            result == rateLimitCheck(rateLimitCache, header, options, now, random, fault)
            key == result.key
            running == /\ rlCalls[key] # <<>> /\ rlCalls[key][1].start # RLOver
                       /\ now - rlCalls[key][1].start < options.window * 1000
        IN  /\ running => rlCalls[key][1].calls < MaxRLCalls
            /\ rateLimitCache' = result.cache
            /\ rlCalls' = [rlCalls EXCEPT ![key] =
                             IF result.caught THEN @
                             ELSE IF running
                             THEN <<[@[1] EXCEPT !.calls = @ + 1]>>
                             ELSE <<[start |-> now, calls |-> 1]>>]
            /\ rlLast' = <<[key |-> key, allowed |-> result.allowed,
                            remaining |-> result.remaining,
                            status |-> IF result.allowed THEN 0 ELSE 429,
                            caught |-> result.caught, swept |-> result.swept,
                            evicted |-> {k \in RLKeys : rateLimitCache[k] # <<>>
                                                        /\ result.cache[k] = <<>>},
                            before |-> rateLimitCache[key],
                            callsBefore |-> rlCalls[key]]>>
    /\ UNCHANGED rlOptions

\* the history at time t: of a window that is over, only the number of calls
\* is kept
RLRunning(calls, t) ==
    [k \in RLKeys |->
        IF calls[k] = <<>> THEN <<>>
        ELSE IF /\ calls[k][1].start # RLOver
                /\ t - calls[k][1].start < rlOptions[1].window * 1000
        THEN calls[k]
        ELSE <<[calls[k][1] EXCEPT !.start = RLOver]>>]

RLTick ==
    /\ now + RLTickMs <= MaxRLTicks * RLTickMs
    /\ now' = now + RLTickMs
    /\ rlLast' = <<>>
    /\ rlCalls' = IF rlOptions = <<>> THEN rlCalls ELSE RLRunning(rlCalls, now')
    /\ UNCHANGED <<session, stored, alarms, lastOp, rlOptions, rateLimitCache>>

RLFrame == UNCHANGED <<devVars, failVars, kvVars, xVars, verVars, tokVars, navVars, stVars>>

RateLimitNext ==
    \/ CreateRateLimiter(RLOptions) /\ UNCHANGED doVars /\ RLFrame
    \/ RateLimiter(RLFaults) /\ UNCHANGED doVars /\ RLFrame
    \/ RLTick /\ RLFrame

SpecRateLimit == Init /\ [][RateLimitNext]_vars

\* Time passes without end.  Only differences now - timestamp are ever
\* compared, against the window and against CleanupAgeMs, and
\* MaxRLTicks * RLTickMs is no less than either: once the clock has reached
\* it, the origin of time slides instead, and a timestamp stays at 0 when it
\* is at least that old.
RLSlide ==
    /\ now + RLTickMs > MaxRLTicks * RLTickMs
    /\ rlLast' = <<>>
    /\ rateLimitCache' =
         [k \in RLKeys |->
            IF rateLimitCache[k] = <<>> THEN <<>>
            ELSE <<[rateLimitCache[k][1] EXCEPT !.timestamp = Max(0, @ - RLTickMs)]>>]
    /\ rlCalls' =
         IF rlOptions = <<>> THEN rlCalls
         ELSE [k \in RLKeys |->
                 LET running == RLRunning(rlCalls, now + RLTickMs)[k]
                 IN  IF running = <<>> \/ running[1].start = RLOver THEN running
                     ELSE <<[running[1] EXCEPT !.start = Max(0, @ - RLTickMs)]>>]
    /\ UNCHANGED <<doVars, rlOptions>>

\* the rate limiter under traffic that never ends, without internal errors,
\* created with a limit of 1 and a window shorter than the cleanup age
RateLimitLiveNext ==
    \/ CreateRateLimiter({o \in RLOptions : o.limit = 1 /\ o.window * 1000 < CleanupAgeMs}) /\ UNCHANGED doVars /\ RLFrame
    \/ RateLimiter({"none"}) /\ UNCHANGED doVars /\ RLFrame
    \/ RLTick /\ RLFrame
    \/ RLSlide /\ RLFrame

\* Time keeps passing, and of the calls that open a window, each of which
\* runs cleanupOldEntries with probability 0.01, some do run it.
SpecRateLimitLive ==
    /\ Init /\ [][RateLimitLiveNext]_vars
    /\ WF_vars((RLTick \/ RLSlide) /\ RLFrame)
    /\ SF_vars(RateLimiter({"none"}) /\ rlLast'[1].swept /\ UNCHANGED doVars /\ RLFrame)

\* ---------------------------------------------------------------- claims

\* C1: a snapshot alarm is pending if and only if playbackState is PLAYING.
C1_AlarmIffPlaying ==
    (alarms # {}) <=> (session.playbackState = "PLAYING")

C3_NoLostUpdate ==
    (Len(kv) > 0 /\ \A p \in Requests : kvPc[p] = "idle")
        => kv[1].retryCount = kvIncrements

\* C4: while playbackState is not PLAYING, estimatePlaybackPosition returns
\* exactly the persisted offsetInMilliseconds, however much time has passed.
C4_EstimateIsPersistedOffset ==
    (lastOp = "estimatePlaybackPosition" /\ session.playbackState # "PLAYING")
        => estimatePlaybackPosition(session, now) = session.offsetInMilliseconds

\* C5: while the session stays PLAYING, an alarm firing never persists an
\* offset smaller than the one already stored.
C5_AlarmNeverPersistsSmaller ==
    [][(lastOp' = "alarm" /\ Len(stored) > 0 /\ Len(stored') > 0
        /\ stored[1].playbackState = "PLAYING"
        /\ stored'[1].playbackState = "PLAYING")
       => stored'[1].offsetInMilliseconds >= stored[1].offsetInMilliseconds]_vars

\* C6: while the session is PLAYING, the offset in durable storage differs
\* from startOffset + (now - startedAt) by at most one snapshot interval.
C6_StoredOffsetStaleByAtMostInterval ==
    (/\ Len(stored) > 0
     /\ stored[1].playbackState = "PLAYING"
     /\ stored[1].playbackStartedAt # NoValue)
        => Abs(stored[1].offsetInMilliseconds
               - (stored[1].playbackStartOffset
                  + (now - stored[1].playbackStartedAt))) <= AlarmIntervalMs

\* C7: after the device stopped without sending PlaybackStopped, the position
\* a later Resume restores is within 30 s of the position of the stop.
C7_ResumeWithinIntervalOfStop ==
    (lastOp = "ResumeIntent" /\ resumePos # NoValue /\ devStopPos >= 0)
        => Abs(resumePos - devStopPos) <= AlarmIntervalMs

\* C8: recordPlaybackStart(id, o) on an existing session leaves playbackState
\* PLAYING, playbackStartedAt the time of the call and playbackStartOffset o.
C8_RecordPlaybackStartSetsPlaying ==
    [][\A p \in Requests :
          (kvPc[p] = "recordPlaybackStart" /\ kvPc'[p] = "idle")
             => /\ kv'[1].playbackState = "PLAYING"
                /\ kv'[1].playbackStartedAt = now'
                /\ kv'[1].playbackStartOffset = kvArg[p].offset]_vars

\* C9: every change of playbackState of an existing session is one of
\* IDLE -> PLAYING, PLAYING -> PAUSED / STOPPED / IDLE, PAUSED -> PLAYING,
\* or any state -> STOPPED.
C9_TransitionsFollowMachine ==
    [][(session.sessionId # NullId
        /\ session'.playbackState # session.playbackState)
       => \/ session.playbackState = "IDLE" /\ session'.playbackState = "PLAYING"
          \/ session.playbackState = "PLAYING"
             /\ session'.playbackState \in {"PAUSED", "STOPPED", "IDLE"}
          \/ session.playbackState = "PAUSED" /\ session'.playbackState = "PLAYING"
          \/ session'.playbackState = "STOPPED"]_vars

\* C10: nextTrack below the last index moves currentIndex forward by one,
\* previousTrack above the first index moves it back by one, and both reset
\* offsetInMilliseconds to 0.
C10_TrackChangeResetsOffset ==
    [][/\ (xLastOp' = "nextTrack" /\ Len(xsessions) > 0
           /\ xsessions[1].currentIndex < Len(xsessions[1].queue) - 1)
          => /\ xsessions'[1].currentIndex = xsessions[1].currentIndex + 1
             /\ xsessions'[1].offsetInMilliseconds = 0
       /\ (xLastOp' = "previousTrack" /\ Len(xsessions) > 0
           /\ xsessions[1].currentIndex > 0)
          => /\ xsessions'[1].currentIndex = xsessions[1].currentIndex - 1
             /\ xsessions'[1].offsetInMilliseconds = 0]_vars

\* C11 (as stated): nextTrack at the last index and previousTrack at index 0
\* return null and leave every field of the session record unchanged.
C11_BoundaryLeavesRecordUnchanged ==
    [][/\ (lastOp' = "nextTrack" /\ session.sessionId # NullId
           /\ session.currentIndex = Len(session.trackIds) - 1)
          => /\ session' = session /\ stored' = stored
             /\ nextTrackResult(Obj) = NoValue
       /\ (lastOp' = "previousTrack" /\ session.sessionId # NullId
           /\ session.currentIndex = 0)
          => /\ session' = session /\ stored' = stored
             /\ previousTrackResult(Obj) = NoValue
       /\ (xLastOp' = "nextTrack" /\ Len(xsessions) > 0
           /\ xsessions[1].currentIndex = Len(xsessions[1].queue) - 1)
          => /\ xsessions' = xsessions
             /\ xNextTrackResult(xsessions) = NoValue
       /\ (xLastOp' = "previousTrack" /\ Len(xsessions) > 0
           /\ xsessions[1].currentIndex = 0)
          => /\ xsessions' = xsessions
             /\ xPreviousTrackResult(xsessions) = NoValue]_vars

\* C11 (amended): the same, where for the Express PlaylistManager the session
\* has repeat disabled; with repeat enabled the call wraps around instead.
C11_BoundaryLeavesRecordUnchangedUnlessRepeat ==
    [][/\ (lastOp' = "nextTrack" /\ session.sessionId # NullId
           /\ session.currentIndex = Len(session.trackIds) - 1)
          => /\ session' = session /\ stored' = stored
             /\ nextTrackResult(Obj) = NoValue
       /\ (lastOp' = "previousTrack" /\ session.sessionId # NullId
           /\ session.currentIndex = 0)
          => /\ session' = session /\ stored' = stored
             /\ previousTrackResult(Obj) = NoValue
       /\ (xLastOp' = "nextTrack" /\ Len(xsessions) > 0
           /\ ~xsessions[1].repeat
           /\ xsessions[1].currentIndex = Len(xsessions[1].queue) - 1)
          => /\ xsessions' = xsessions
             /\ xNextTrackResult(xsessions) = NoValue
       /\ (xLastOp' = "previousTrack" /\ Len(xsessions) > 0
           /\ ~xsessions[1].repeat
           /\ xsessions[1].currentIndex = 0)
          => /\ xsessions' = xsessions
             /\ xPreviousTrackResult(xsessions) = NoValue]_vars

\* C11 witness: nextTrack was the last call on both deployments and found
\* the session at its last index: the object still holds a non-zero offset
\* (a track change would have reset it), the PlaylistManager a one-track
\* queue with repeat disabled.
C11_Witness ==
    /\ lastOp = "nextTrack"
    /\ session.sessionId # NullId
    /\ session.currentIndex = Len(session.trackIds) - 1
    /\ session.offsetInMilliseconds > 0
    /\ xLastOp = "nextTrack"
    /\ Len(xsessions) > 0
    /\ ~xsessions[1].repeat
    /\ Len(xsessions[1].queue) = 1
    /\ xsessions[1].currentIndex = 0

\* C12: in every state of a created session, 0 <= currentIndex <= number of
\* track ids - 1.
C12_CurrentIndexInRange ==
    session.sessionId # NullId
        => /\ 0 <= session.currentIndex
           /\ session.currentIndex <= Len(session.trackIds) - 1

\* C13: offsetInMilliseconds of the session is >= 0 in every reachable state,
\* in memory and in storage.
C13_OffsetNonNegative ==
    /\ session.offsetInMilliseconds >= 0
    /\ Len(stored) > 0 => stored[1].offsetInMilliseconds >= 0

\* C14: createSession with an empty list of track ids fails and leaves the
\* existing session unchanged; with a non-empty list it installs a fresh
\* record with playbackState IDLE, offset 0 and retryCount 0.  Stated for
\* the call on every reachable session and for every createSession step.
C14_CreateSessionFreshOrUnchanged ==
    /\ [](/\ \A i \in IndexArgs :
                /\ createSession(Obj, DeviceId, <<>>, i, now) = Obj
                /\ xCreateSession(xsessions, <<>>, i, now) = xsessions
          /\ \A ids \in TrackLists \ {<<>>}, i \in IndexArgs :
                LET D == createSession(Obj, DeviceId, ids, i, now)
                    X == xCreateSession(xsessions, ids, i, now)
                IN  /\ D.session.trackIds = ids
                    /\ D.session.playbackState = "IDLE"
                    /\ D.session.offsetInMilliseconds = 0
                    /\ D.session.retryCount = 0
                    /\ D.stored = <<D.session>>
                    /\ X[1].queue = ids
                    /\ X[1].playbackState = "IDLE"
                    /\ X[1].offsetInMilliseconds = 0
                    /\ X[1].retryCount = 0)
    /\ [][lastOp' = "createSession" =>
             /\ \/ session' = session /\ stored' = stored
                \/ /\ session'.playbackState = "IDLE"
                   /\ session'.offsetInMilliseconds = 0
                   /\ session'.retryCount = 0
                   /\ stored' = <<session'>>
             /\ \/ xsessions' = xsessions
                \/ /\ xsessions'[1].playbackState = "IDLE"
                   /\ xsessions'[1].offsetInMilliseconds = 0
                   /\ xsessions'[1].retryCount = 0]_vars

\* C14 witness: a createSession was refused on a session that exists, is
\* PLAYING at a non-zero offset and has counted a retry.
C14_Witness ==
    /\ lastOp = "createSession"
    /\ session.sessionId # NullId
    /\ session.playbackState = "PLAYING"
    /\ session.offsetInMilliseconds > 0
    /\ session.retryCount > 0
    /\ Len(xsessions) > 0
    /\ xsessions[1].playbackState = "PLAYING"
    /\ xsessions[1].retryCount > 0

\* C15: a track whose playback keeps failing is re-issued for playback at
\* most 2 times in a row by PlaybackFailedHandler.
C15_AtMostTwoRetries == reissued <= RetryLimit

\* the signature header the deployment reads
RequestSignature(r) ==
    IF r.deployment = "express" THEN r.signature ELSE headerSignature(r)

\* verification is in force for the request
VerificationEnabled(r) ==
    r.config.enabled \/ (r.deployment = "express" /\ r.config.production)

\* the body's timestamp is a time within the window around now
TimestampInWindow(body) ==
    LET requestTime == DateGetTime(Get(JSONparse(body), "request.timestamp")) IN
    Len(requestTime) > 0 /\ Abs(now - requestTime[1]) <= TimestampWindowMs

\* C16: with verification enabled, an accepted request had both headers, a
\* certificate URL that passed validation, a signature that verifies over the
\* body with the key of the certificate at that URL, a body timestamp within
\* 150000 ms of now and, when a skill id is configured, that application id.
C16_AcceptedOnlyIfAllChecksHeld ==
    (vpc = "accepted" /\ VerificationEnabled(vreq[1])) =>
        LET r == vreq[1] IN
        /\ r.certUrl # <<>>
        /\ RequestSignature(r) # <<>>
        /\ isValidCertUrl(r.certUrl[1])
        /\ RequestSignature(r)[1].over = r.body
        /\ \E response \in Responses(r.certUrl[1]) :
               extractPublicKey(response.text) = <<RequestSignature(r)[1].key>>
        /\ TimestampInWindow(r.body)
        /\ r.config.skillId # NullId =>
               applicationId(JSONparse(r.body)) = r.config.skillId

\* the four requirements on a certificate URL, read off the URL as written
SchemeIsHttps(url) == url.scheme \in {"https", "HTTPS"}

HostnameAllowListed(url) ==
    LET hostname == [i \in DOMAIN url.host |-> toLowerCase(url.host[i])] IN
    \/ hostname = <<"s3.amazonaws.com">>
    \/ hostname = <<"s3.amazonaws.com", "-", "global">>
    \/ Len(hostname) >= 2 /\ hostname[1] = "s3.amazonaws.com" /\ hostname[2] = "-"

PathUnderEchoApi(url) ==
    LET path == removeDotSegments(url.path, <<>>) IN
    Len(path) >= 2 /\ path[1] = "echo.api"

PortUnspecifiedOr443(url) == url.port \in {"", "443"}

CertUrlPassesValidation(url) ==
    /\ SchemeIsHttps(url)
    /\ HostnameAllowListed(url)
    /\ PathUnderEchoApi(url)
    /\ PortUnspecifiedOr443(url)

\* C17: no cache read and no fetch is issued for a certificate URL that fails
\* URL validation; a request that carries both headers and such a URL is
\* rejected with the invalid-certificate-URL error before either.
C17_NoFetchForInvalidUrl ==
    /\ certReads # {} => CertUrlPassesValidation(vreq[1].certUrl[1])
    /\ (/\ vreq # <<>>
        /\ vreq[1].deployment = "workers"
        /\ vreq[1].config.enabled
        /\ vreq[1].certUrl # <<>>
        /\ headerSignature(vreq[1]) # <<>>
        /\ ~CertUrlPassesValidation(vreq[1].certUrl[1]))
       => /\ vpc = "rejected"
          /\ verror = "Invalid certificate URL format"
          /\ certReads = {}

\* a request with both headers and a URL outside the allow-list was rejected
C17_Witness ==
    /\ vpc = "rejected"
    /\ verror = "Invalid certificate URL format"
    /\ vreq[1].certUrl # <<>>
    /\ ~HostnameAllowListed(vreq[1].certUrl[1])
    /\ certReads = {}

\* C18: isValidCertUrl accepts a URL if and only if its scheme is HTTPS, its
\* hostname is on the allow-list (exactly, or by the s3.amazonaws.com- prefix),
\* its path is under /echo.api/ and its port is unspecified or exactly 443.
C18_ValidIffFourRequirements ==
    (vreq # <<>> /\ vreq[1].certUrl # <<>>) =>
        LET url == vreq[1].certUrl[1] IN
        /\ isValidCertUrl(url) <=> CertUrlPassesValidation(url)
        /\ vpc = "getCertificate" => CertUrlPassesValidation(url)
        /\ verror = "Invalid certificate URL format" => ~CertUrlPassesValidation(url)

\* a URL written with upper-case scheme and host and an explicit port 443 has
\* passed validation
C18_Witness ==
    /\ vpc = "getCertificate"
    /\ vreq[1].certUrl[1].scheme = "HTTPS"
    /\ vreq[1].certUrl[1].host = <<"S3.AMAZONAWS.COM">>
    /\ vreq[1].certUrl[1].port = "443"
    /\ vreq[1].certUrl[1].path = <<"x", "..", "echo.api", "cert.pem">>

\* C19: the body is parsed only after signature verification has succeeded; a
\* request whose signature does not verify is rejected with its body unparsed.
C19_ParsedOnlyAfterSignature ==
    /\ reqBody # <<>> => sigChecked = "valid"
    /\ sigChecked = "invalid" => vpc = "rejected" /\ reqBody = <<>>

\* the request carries the headers Amazon sends for its body: both signatures
\* made with Amazon's key over the body bytes, and Amazon's certificate URL
CorrectlySigned(r) ==
    /\ r.signature256 = << [key |-> "amazon", alg |-> "SHA-256", over |-> r.body] >>
    /\ r.signature = << [key |-> "amazon", alg |-> "SHA-1", over |-> r.body] >>
    /\ r.certUrl # <<>>
    /\ CertUrlPassesValidation(r.certUrl[1])
    /\ r.certUrl[1].host = <<"s3.amazonaws.com">>

\* C20: the signature is verified over the body bytes as received, never over
\* a re-serialization of the parsed body, so no correctly signed body fails
\* signature verification, whatever its key order or white space.
C20_VerifiedOverReceivedBytes ==
    /\ vpc = "alexaVerifier" => JSONstringify(reqBody[1]) = vreq[1].body
    /\ (vreq # <<>> /\ CorrectlySigned(vreq[1])) => sigChecked # "invalid"

\* the distance of the body's timestamp from now: <<>> when it has none
TimestampDistance(body) ==
    LET requestTime == DateGetTime(Get(JSONparse(body), "request.timestamp")) IN
    IF Len(requestTime) = 0 THEN <<>> ELSE << Abs(now - requestTime[1]) >>

C22_FailureStatus ==
    (vpc = "rejected" /\ verror \in {"Missing signature headers",
         "Invalid request signature", "Invalid signature",
         "Request timestamp too old", "Unauthorized skill", "Skill ID mismatch"}) =>
        ResponseStatus(vreq[1].deployment, verror) =
            CASE verror = "Missing signature headers" -> 400
              [] verror \in {"Invalid request signature", "Invalid signature",
                             "Request timestamp too old"} -> 401
              [] OTHER -> 403

C24_ExpiredTokenIsNull ==
    tokResult # <<>> =>
        /\ (/\ tok[1].origin = "generated"
            /\ nowSeconds(now) > nowSeconds(tok[1].issuedAt) + tok[1].expiresIn)
           => tokResult[1].result.value = <<>>
        /\ tokResult[1].result.value # <<>>
           => tokResult[1].result.value[1].exp >= nowSeconds(now)

\* a token generated with a positive ttl was verified with its secret after
\* it had expired
C24_Witness ==
    /\ tokResult # <<>> /\ tokResult[1].secret = "secret"
    /\ tok[1].origin = "generated" /\ tok[1].expiresIn > 0
    /\ nowSeconds(now) > nowSeconds(tok[1].issuedAt) + tok[1].expiresIn
    /\ tokResult[1].result.value = <<>>

\* C25: after one character of the payload segment or of the signature
\* segment of a generated token was changed, verifyStreamToken returns null.
C25_ChangedTokenIsNull ==
    (tokResult # <<>> /\ tok[1].origin \in {"payload changed", "signature changed"})
    => tokResult[1].result.value = <<>>

\* a token whose exp character was raised while it was still valid was
\* verified with the right secret
C25_Witness ==
    /\ tokResult # <<>> /\ tokResult[1].secret = "secret"
    /\ tok[1].origin = "payload changed"
    /\ tok[1].expiresIn > 0 /\ tok[1].issuedAt = now
    /\ tok[1].token.parts[2][5].n = nowSeconds(now) + tok[1].expiresIn + 15
    /\ tokResult[1].result.value = <<>>

\* C26: verifyStreamToken never throws, and it returns a payload only when the
\* signature matches, the token is unexpired and its type tag is "stream".
C26_NeverThrows ==
    tokResult # <<>> =>
        LET token == tok[1].token
            result == tokResult[1].result
        IN  /\ ~result.threw
            /\ result.value # <<>> =>
                   /\ token.isString /\ Len(token.parts) = 3
                   /\ token.parts[3] =
                          signHS256(<<token.parts[1], token.parts[2]>>, tokResult[1].secret)
                   /\ result.value[1].exp >= nowSeconds(now)
                   /\ result.value[1].type = "stream"

\* verifying something that is no string, and a token whose payload does not
\* decode, gave null
C26_Witness ==
    /\ tokResult # <<>>
    /\ ~tok[1].token.isString
    /\ tokResult[1].result = [threw |-> FALSE, value |-> <<>>]

\* C27: every token generateStreamToken produces, for any expiresIn, carries
\* a payload with exp > iat.
C27_ExpAfterIat ==
    (tok # <<>> /\ tok[1].origin = "generated") =>
        LET payload == parsePayload(base64UrlDecode(tok[1].token.parts[2])[1])[1]
        IN  payload.exp > payload.iat

\* C28: GET /stream/ answers 401 without a token, 403 with a token that does
\* not verify or is bound to another track, and serves audio only with a
\* token that verifies and is bound to the requested track.
C28_StreamNeedsToken ==
    streamed # <<>> =>
        LET verified == verifyStreamToken(tok[1].token, "secret", now).value
            bound == verified # <<>> /\ verified[1].trackId = streamed[1].trackId
        IN  /\ ~streamed[1].withToken => streamed[1].status = 401
            /\ (streamed[1].withToken /\ ~bound) => streamed[1].status = 403
            /\ streamed[1].status = 200 => streamed[1].withToken /\ bound

\* C29: for a key and limit N, within one window the first N rateLimitCheck
\* calls return allowed = true and the (N+1)th and every further call in that
\* window return allowed = false.
C29_FirstNAllowedThenDenied ==
    (rlLast # <<>> /\ ~rlLast[1].caught) =>
        (rlLast[1].allowed <=> rlCalls[rlLast[1].key][1].calls <= rlOptions[1].limit)

\* the window the limiter holds for the key of the call just made had elapsed
\* when the call was made
RLWindowElapsed ==
    /\ rlLast # <<>> /\ rlLast[1].before # <<>>
    /\ now - rlLast[1].before[1].timestamp >= rlOptions[1].window * 1000

\* C30: once the window of a key has elapsed, the next rateLimitCheck call for
\* that key returns allowed = true and its counter starts again at 1, also
\* when the key was being denied and kept calling during the window.
C30_AllowedAfterWindow ==
    RLWindowElapsed =>
        /\ rlLast[1].allowed
        /\ ~rlLast[1].caught =>
             rateLimitCache[rlLast[1].key] = <<[count |-> 1, timestamp |-> now]>>

C30_Witness ==
    /\ RLWindowElapsed /\ rlLast[1].allowed /\ ~rlLast[1].caught
    /\ rlOptions[1].limit >= 1
    /\ rlLast[1].before[1].count >= rlOptions[1].limit
    /\ rlLast[1].callsBefore # <<>>
    /\ rlLast[1].callsBefore[1].calls >= rlLast[1].before[1].count + 2

\* C31: when an internal error occurs during a rate-limit check, the check
\* returns allowed = true with the full limit remaining, and the middleware
\* lets the request through: no 429.
C31_FailsOpen ==
    (rlLast # <<>> /\ rlLast[1].caught) =>
        /\ rlLast[1].allowed /\ rlLast[1].status # 429
        /\ rlLast[1].remaining = rlOptions[1].limit

\* an internal error on a call the limiter would otherwise have denied
C31_Witness ==
    /\ rlLast # <<>> /\ rlLast[1].caught /\ rlLast[1].allowed
    /\ rlLast[1].before # <<>>
    /\ rlLast[1].before[1].count >= rlOptions[1].limit
    /\ now - rlLast[1].before[1].timestamp < rlOptions[1].window * 1000

\* the counter of key k started longer ago than the cleanup age
RLStale(k) ==
    /\ rateLimitCache[k] # <<>>
    /\ now - rateLimitCache[k][1].timestamp > CleanupAgeMs

C33_DirectedTrackIsCurrent ==
    directed # NoValue => getCurrentTrack(Obj) = directed

\* C34: when persisting the snapshot or arming the next alarm fails during an
\* alarm firing of a PLAYING session, a later alarm of the session is armed.
C34_AlarmArmedAfterFailure ==
    (lastOp = "alarmFailed" /\ session.playbackState = "PLAYING") => alarms # {}

\* C35: as long as createSession was never called for the object (its
\* sessionId is still null), no lifecycle operation has persisted a session
\* record or armed an alarm for it.
C35_NothingForUnknownSession ==
    session.sessionId = NullId => (stored = <<>> /\ alarms = {})


\* ============ SpecStorage: Express SessionStorage, its timer and its file
\* PlaylistManager hands its session objects to SessionStorage by reference
\* (setSession) and deletes them from both Maps together, so
\* SessionStorage.sessions holds what PlaylistManager.sessions holds:
\* xsessions stands for both.  A file's content is the sequence of the two
\* chunks a writeFile call writes it in, NoFile while the path is absent.
\* The lastUpdated field of the text is not followed.

SaveDelayMs == 500
StTickMs    == SaveDelayMs \div 2     \* step of the clock in this specification
MaxStTicks  == 4                      \* the clock runs to MaxStTicks * StTickMs
MaxStOps    == 3                      \* PlaylistManager and saveNow calls

Hole      == [chunk |-> 0, sessions |-> <<>>]   \* bytes not written yet
EmptyFile == <<Hole, Hole>>                     \* a file just created or truncated

\* JSON.stringify(data, null, 2) with data.sessions = Object.fromEntries(X)
stringify(X) == <<[chunk |-> 1, sessions |-> X], [chunk |-> 2, sessions |-> X]>>

\* the content is the whole text of one snapshot (JSON.parse accepts it)
complete(content) ==
    /\ content # NoFile
    /\ content[1].chunk = 1 /\ content[2].chunk = 2
    /\ content[1].sessions = content[2].sessions

\* load(): the sessions read from filePath; none when the file is absent
loaded(content) == IF content = NoFile THEN <<>> ELSE content[1].sessions

\* a variant of scheduleSave that leaves the timer set before in place
scheduleSaveKeepsTimer(S, t) ==
    [saveTimeout |-> t + SaveDelayMs, timers |-> S.timers \cup {t + SaveDelayMs}]

\* scheduleSave() on S = [saveTimeout, timers] at time t
scheduleSave(S, t) ==
    [saveTimeout |-> t + SaveDelayMs,
     timers |-> (IF S.saveTimeout # NoValue THEN S.timers \ {S.saveTimeout}
                 ELSE S.timers) \cup {t + SaveDelayMs}]

StFrame ==
    UNCHANGED <<session, stored, alarms, lastOp, devVars, failVars, kvVars,
                verVars, tokVars, rlVars, navVars>>

\* setSession(sessionId, session) as _syncToStorage calls it: the Map entry
\* is the object PlaylistManager holds already, then scheduleSave()
setSession ==
    LET S == scheduleSave([saveTimeout |-> saveTimeout, timers |-> timers], now)
    IN  /\ saveTimeout' = S.saveTimeout
        /\ timers' = S.timers
        /\ lastChange' = now
        /\ stLastOp' = "scheduleSave"

\* a PlaylistManager call that leaves sessions X; synced: it reaches
\* _syncToStorage with the session present
StBecomes(X, op, synced) ==
    /\ stOps < MaxStOps
    /\ stOps' = stOps + 1
    /\ xsessions' = X
    /\ xLastOp' = op
    /\ IF synced THEN setSession
       ELSE /\ UNCHANGED <<saveTimeout, timers, lastChange>>
            /\ stLastOp' = "none"
    /\ UNCHANGED <<now, saves, tmpFile, sessionFile>>
    /\ StFrame

\* createSession throws on an empty list before it touches anything
StCreateSession ==
    \E ids \in {l \in TrackLists : Len(l) \in {0, 2}}, i \in {0} :
        StBecomes(xCreateSession(xsessions, ids, i, now), "createSession",
                  Len(ids) > 0)

StNextTrack == StBecomes(xNextTrack(xsessions), "nextTrack", FALSE)

StPreviousTrack == StBecomes(xPreviousTrack(xsessions), "previousTrack", FALSE)

StUpdatePlaybackPosition ==
    \E o \in {0}, st \in {"PLAYING"} :
        StBecomes(xUpdatePlaybackPosition(xsessions, o, st, now),
                  "updatePlaybackPosition", Len(xsessions) > 0)

\* a save() call: it first awaits mkdir
FreeRuns == {r \in SaveRuns : saves[r].pc = "idle"}

saveCalled ==
    [saves EXCEPT ![CHOOSE r \in FreeRuns : \A q \in FreeRuns : r <= q].pc = "mkdir"]

\* the setTimeout callback of scheduleSave: this.save(); this.saveTimeout = null
TimerFires ==
    \E d \in timers :
        /\ d <= now
        /\ FreeRuns # {}
        /\ timers' = timers \ {d}
        /\ saves' = saveCalled
        /\ saveTimeout' = NoValue
        /\ stLastOp' = "save"
        /\ UNCHANGED <<now, xVars, tmpFile, sessionFile, lastChange, stOps>>
        /\ StFrame

\* saveNow()
SaveNow ==
    /\ FreeRuns # {}
    /\ stOps < MaxStOps
    /\ stOps' = stOps + 1
    /\ timers' = IF saveTimeout # NoValue THEN timers \ {saveTimeout} ELSE timers
    /\ saveTimeout' = NoValue
    /\ saves' = saveCalled
    /\ stLastOp' = "saveNow"
    /\ UNCHANGED <<now, xVars, tmpFile, sessionFile, lastChange>>
    /\ StFrame

Without(runs, i) == [runs EXCEPT ![i] = NoSave]

\* fs.rename(tempPath, filePath) by run i: the file the other runs hold open
\* moves with the rename, and the file that was at filePath is unlinked
renamed(runs, i) ==
    Without([j \in SaveRuns |->
                IF runs[j].fd = "tmp" THEN [runs[j] EXCEPT !.fd = "file"]
                ELSE IF runs[j].fd = "file" THEN [runs[j] EXCEPT !.fd = "gone"]
                ELSE runs[j]], i)

\* one step of a save() run in flight
SaveStep ==
    \E i \in SaveRuns \ FreeRuns :
        LET r == saves[i]
            next(pc) == [saves EXCEPT ![i].pc = pc]
            written(k) ==
                /\ tmpFile' = IF r.fd = "tmp" THEN [tmpFile EXCEPT ![k] = r.text[k]]
                              ELSE tmpFile
                /\ sessionFile' = IF r.fd = "file"
                                  THEN [sessionFile EXCEPT ![k] = r.text[k]]
                                  ELSE sessionFile
        IN  /\ CASE r.pc = "mkdir" ->
                      \* mkdir is done: the text is built, writeFile is called
                      /\ saves' = [saves EXCEPT ![i].pc = "open",
                                                ![i].text = stringify(xsessions)]
                      /\ stLastOp' = "mkdir"
                      /\ UNCHANGED <<tmpFile, sessionFile>>
                 [] r.pc = "open" ->
                      \* writeFile opens tempPath, creating or truncating it
                      /\ saves' = [saves EXCEPT ![i].pc = "write1", ![i].fd = "tmp"]
                      /\ tmpFile' = EmptyFile
                      /\ stLastOp' = "open"
                      /\ UNCHANGED sessionFile
                 [] r.pc = "write1" ->
                      /\ saves' = next("write2")
                      /\ written(1)
                      /\ stLastOp' = "write"
                 [] r.pc = "write2" ->
                      /\ saves' = next("rename")
                      /\ written(2)
                      /\ stLastOp' = "write"
                 [] r.pc = "rename" ->
                      IF tmpFile = NoFile
                      THEN \* ENOENT: caught, 'Failed to save session file'
                           /\ saves' = Without(saves, i)
                           /\ stLastOp' = "saveFailed"
                           /\ UNCHANGED <<tmpFile, sessionFile>>
                      ELSE /\ saves' = renamed(saves, i)
                           /\ sessionFile' = tmpFile
                           /\ tmpFile' = NoFile
                           /\ stLastOp' = "saved"
            /\ UNCHANGED <<now, xVars, saveTimeout, timers, lastChange, stOps>>
            /\ StFrame

\* time passes; a timer that is due runs before time passes on
StTick ==
    /\ now + StTickMs <= MaxStTicks * StTickMs
    /\ \A d \in timers : now + StTickMs <= d
    /\ now' = now + StTickMs
    /\ stLastOp' = "tick"
    /\ UNCHANGED <<xVars, saveTimeout, timers, saves, tmpFile, sessionFile,
                   lastChange, stOps>>
    /\ StFrame

StorageNext ==
    \/ StCreateSession
    \/ StNextTrack
    \/ StPreviousTrack
    \/ StUpdatePlaybackPosition
    \/ TimerFires
    \/ SaveNow
    \/ SaveStep
    \/ StTick

SpecStorage == Init /\ [][StorageNext]_vars


\* ---------------------------------------------------------------- claims

\* C36: at every moment, overlapping save() runs included, the file at
\* filePath holds the whole text of one snapshot, and no save() ends in the
\* catch block.
C36_FileAlwaysOneSnapshot ==
    /\ sessionFile # NoFile => complete(sessionFile)
    /\ stLastOp # "saveFailed"

\* no timer is pending and no save() is in flight
StQuiet == timers = {} /\ FreeRuns = SaveRuns

\* C37: once no timer is pending and no save() is in flight, the sessions
\* read from the file are the sessions in memory.
C37_QuietFileEqualsSessions ==
    StQuiet => /\ sessionFile # NoFile => complete(sessionFile)
               /\ loaded(sessionFile) = xsessions

RetentionMs       == 3600000
CleanupIntervalMs == 1800000
ClTickMs          == CleanupIntervalMs \div 2
MaxClTicks        == 6        \* the clock runs from 0 to MaxClTicks * ClTickMs

\* cleanupOldSessions() at time t
xCleanupOldSessions(X, t) ==
    IF Len(X) > 0 /\ X[1].createdAt < t - RetentionMs THEN <<>> ELSE X

\* time passes; at every multiple of the interval the setInterval callback runs
ClTick ==
    /\ now + ClTickMs <= MaxClTicks * ClTickMs
    /\ now' = now + ClTickMs
    /\ IF now' % CleanupIntervalMs = 0
       THEN /\ xsessions' = xCleanupOldSessions(xsessions, now')
            /\ xLastOp' = "cleanupOldSessions"
       ELSE /\ UNCHANGED xsessions
            /\ xLastOp' = "tick"
    /\ UNCHANGED <<session, stored, alarms, lastOp, devVars, failVars, kvVars,
                   verVars, tokVars, rlVars, navVars, stVars>>

CleanupNext ==
    \/ XCreateSession
    \/ XUpdatePlaybackPosition
    \/ XRecordPlaybackStart
    \/ ClTick

SpecCleanup == Init /\ [][CleanupNext]_vars

\* C40: a run of the periodic cleanup removes a session only if it is not
\* PLAYING and was last updated more than the retention period ago.
C40_CleanupOnlyIdleSessions ==
    [][(xLastOp' = "cleanupOldSessions" /\ xsessions # <<>> /\ xsessions' = <<>>) =>
          /\ xsessions[1].playbackState # "PLAYING"
          /\ now' - xsessions[1].updatedAt > RetentionMs]_vars

====
